---- MODULE Spec2Model ----
(***************************************************************************)
(* SkyTrackr: the virtual clock (SimulationTimeContext), the sidereal and  *)
(* horizontal-coordinate utilities (astroUtils), the planet ephemeris      *)
(* (getPlanets) and the search / camera-aim path of SkyViewer.             *)
(*                                                                         *)
(* Units of the model.  TLC integers are 32 bits wide, so the quantities   *)
(* the program keeps in IEEE doubles are carried as scaled integers:       *)
(*   - a timestamp (Date.getTime(), Date.now()) is a whole number of HOURS *)
(*     since the Unix epoch (one model tick = 3 600 000 ms);               *)
(*   - an angle in degrees is a whole number of degrees;                   *)
(*   - a sine or cosine is an integer in -10000..10000 (value * 10^4);     *)
(*   - a length in astronomical units is an integer number of 1/1000 AU;   *)
(*   - a camera angle in radians is a whole number of milliradians.        *)
(* Rates of the clock are integers, so that new Date(x) (which truncates   *)
(* x to a whole timestamp) is the identity on every value it is given.     *)
(***************************************************************************)
EXTENDS Integers, Sequences, FiniteSets, TLC

(***************************************************************************)
(* Bounds of the model                                                     *)
(***************************************************************************)
\* Date.now() when the provider is constructed (hours since the Unix epoch)
Start == 497096
\* the wall clock is followed for MaxWall ticks after Start
MaxWall == 2
\* simulated time is kept within MaxSkew ticks of Start
MaxSkew == 1
\* largest magnitude of a rate handed to setSpeed
MaxRate == 2

Rates == (0 - MaxRate)..MaxRate
SimTimes == (Start - MaxSkew)..(Start + MaxSkew)

(***************************************************************************)
(* Arithmetic of the scaled quantities                                     *)
(***************************************************************************)
Abs(x) == IF x < 0 THEN 0 - x ELSE x

\* n / d rounded to the nearest integer, halves away from zero
RoundDiv(n, d) ==
    LET m == Abs(n)
        q == IF 2 * (m % d) >= d THEN (m \div d) + 1 ELSE m \div d
    IN  IF n >= 0 THEN q ELSE 0 - q

\* the JavaScript remainder a % n: it has the sign of a
JsRem(a, n) == IF a >= 0 THEN a % n ELSE 0 - ((0 - a) % n)

\* x * micro / 10^6 rounded, computed in three parts to stay within 32 bits
ScaleBy(x, micro) ==
    LET q2 == x \div 1000000
        q1 == (x \div 1000) % 1000
        r  == x % 1000
    IN  q2 * micro + RoundDiv(q1 * micro, 1000) + RoundDiv(r * micro, 1000000)

\* 10^4 * sin(d degrees) for d = 0..90
SinTab ==
    << 0, 175, 349, 523, 698, 872, 1045, 1219, 1392, 1564,
       1736, 1908, 2079, 2250, 2419, 2588, 2756, 2924, 3090, 3256,
       3420, 3584, 3746, 3907, 4067, 4226, 4384, 4540, 4695, 4848,
       5000, 5150, 5299, 5446, 5592, 5736, 5878, 6018, 6157, 6293,
       6428, 6561, 6691, 6820, 6947, 7071, 7193, 7314, 7431, 7547,
       7660, 7771, 7880, 7986, 8090, 8192, 8290, 8387, 8480, 8572,
       8660, 8746, 8829, 8910, 8988, 9063, 9135, 9205, 9272, 9336,
       9397, 9455, 9511, 9563, 9613, 9659, 9703, 9744, 9781, 9816,
       9848, 9877, 9903, 9925, 9945, 9962, 9976, 9986, 9994, 9998,
       10000 >>

\* Math.sin and Math.cos of an angle given in whole degrees, times 10^4
Sin(d) ==
    LET m == d % 360
    IN  (IF m <= 180 THEN 1 ELSE -1)
          * SinTab[(IF m <= 90 THEN m ELSE IF m <= 180 THEN 180 - m
                    ELSE IF m <= 270 THEN m - 180 ELSE 360 - m) + 1]

Cos(d) == Sin(d + 90)

\* the product of two sines / cosines, again times 10^4
Mul(a, b) == RoundDiv(a * b, 10000)

\* the value NaN of a JavaScript number, kept apart from every angle
NaN == 1000000

\* if (x < 0) x += 360
Normalize360(x) == IF x < 0 THEN x + 360 ELSE x

\* Math.asin in whole degrees of v / 10^4: the nearest degree of the table
RECURSIVE AsinIn(_, _, _)
AsinIn(c, lo, hi) ==
    IF hi - lo <= 1 THEN lo
    ELSE IF Sin((lo + hi) \div 2) <= c
         THEN AsinIn(c, (lo + hi) \div 2, hi) ELSE AsinIn(c, lo, (lo + hi) \div 2)

AsinNearest(c, lo) ==
    IF lo < 90 /\ Sin(lo + 1) - c < c - Sin(lo) THEN lo + 1 ELSE lo

AsinClipped(c) == AsinNearest(c, AsinIn(c, -90, 91))

\* Math.asin(v / 10^4): NaN for an argument outside -1..1 (a sum of rounded
\* products can pass 1 by one unit in the last place)
Asin(v) == IF v > 10000 \/ v < -10000 THEN NaN ELSE AsinClipped(v)

\* the angle in 0..90 of the direction (x, y), x >= 0, y >= 0, not both 0
RECURSIVE Atan2In(_, _, _, _)
Atan2In(y, x, lo, hi) ==
    IF hi - lo <= 1 THEN lo
    ELSE IF y * Cos((lo + hi) \div 2) - x * Sin((lo + hi) \div 2) >= 0
         THEN Atan2In(y, x, (lo + hi) \div 2, hi) ELSE Atan2In(y, x, lo, (lo + hi) \div 2)

Atan2Nearest(y, x, lo) ==
    IF lo < 90 /\ x * Sin(lo + 1) - y * Cos(lo + 1) < y * Cos(lo) - x * Sin(lo)
    THEN lo + 1 ELSE lo

Atan2Q(y, x) == Atan2Nearest(y, x, Atan2In(y, x, 0, 91))

\* the angle q of the first quadrant carried to the quadrant of (x, y)
Atan2Quadrant(q, y, x) ==
    IF x >= 0 THEN (IF y >= 0 THEN q ELSE 0 - q)
    ELSE (IF y >= 0 THEN 180 - q ELSE q - 180)

\* Math.atan2(y, x) in whole degrees, in -180..180; atan2(0, 0) is 0
Atan2(y, x) ==
    IF x = 0 /\ y = 0 THEN 0 ELSE Atan2Quadrant(Atan2Q(Abs(y), Abs(x)), y, x)

\* Math.sqrt of a non-negative integer, rounded down
RECURSIVE SqrtIn(_, _, _)
SqrtIn(n, lo, hi) ==
    IF lo >= hi THEN lo
    ELSE LET mid == (lo + hi + 1) \div 2
         IN  IF mid * mid <= n THEN SqrtIn(n, mid, hi) ELSE SqrtIn(n, lo, mid - 1)

Sqrt(n) == SqrtIn(n, 0, 46340)

(***************************************************************************)
(* astroUtils: sidereal time and horizontal coordinates                    *)
(***************************************************************************)
\* J2000 = 2451545.0, the Julian Date of the epoch
J2000 == 2451545

\* getJulianDate(date) - J2000, in hours: date.getTime() / 86400000 + 2440587.5
\* is (t + 58574100) / 24 days for a timestamp of t hours
HoursSinceJ2000(t) == (t + 2440587 * 24 + 12) - J2000 * 24

\* 360.98564736629 * d for d = h / 24 days is 15 * h + 0.0410686402 * h
\* degrees; the second part, in tenths of a degree
SiderealGain(h) == ScaleBy(h, 410686) + ScaleBy(RoundDiv(h, 1000), 403)

\* getGreenwichSiderealTime(date): 280.46061837 + 360.98564736629 * d degrees
\* (the fraction is carried in tenths of a degree), reduced into 0..359
getGreenwichSiderealTime(t) ==
    Normalize360(JsRem(15 * HoursSinceJ2000(t)
                         + RoundDiv(2805 + SiderealGain(HoursSinceJ2000(t)), 10), 360))

\* The sum gmst + longitude and the sum lst + 360 are rounded to the nearest
\* number the format holds, and the numbers lie closer together near 0 than
\* near 360.  That is kept here on a small scale: the local sidereal time is
\* carried in eighths of a degree by a significand of Significand bits, which
\* holds every whole degree up to 512 and every eighth up to 128 degrees.
Significand == 10

\* the distance between neighbouring numbers at magnitude m, from u upwards
RECURSIVE Spacing(_, _)
Spacing(m, u) == IF m < (2 ^ Significand) * u THEN u ELSE Spacing(m, 2 * u)

\* the multiple of u nearest to m >= 0, a tie going to the even multiple
NearestMultiple(m, u) ==
    IF 2 * (m % u) > u \/ (2 * (m % u) = u /\ (m \div u) % 2 = 1)
    THEN ((m \div u) + 1) * u ELSE (m \div u) * u

\* the result of an addition: the exact sum x rounded to the format
Rounded(x) ==
    IF x >= 0 THEN NearestMultiple(x, Spacing(x, 1))
    ELSE 0 - NearestMultiple(0 - x, Spacing(0 - x, 1))

\* a faulty reduction, which adds half a turn to a negative remainder
LocalSidereal_HalfTurn(gmst, longitude) ==
    IF JsRem(Rounded(gmst + longitude), 2880) < 0
    THEN Rounded(JsRem(Rounded(gmst + longitude), 2880) + 1440)
    ELSE JsRem(Rounded(gmst + longitude), 2880)

\* lst = gmst + longitude; lst = lst % 360; if (lst < 0) lst += 360, for gmst
\* and longitude in eighths of a degree (the remainder is exact)
LocalSidereal(gmst, longitude) ==
    IF JsRem(Rounded(gmst + longitude), 2880) < 0
    THEN Rounded(JsRem(Rounded(gmst + longitude), 2880) + 2880)
    ELSE JsRem(Rounded(gmst + longitude), 2880)

\* getLocalSiderealTime(date, longitude) for a longitude of whole degrees: the
\* result is a whole degree again
getLocalSiderealTime(t, longitude) ==
    LocalSidereal(8 * getGreenwichSiderealTime(t), 8 * longitude) \div 8

\* a faulty altitude, with the sine and the cosine of the latitude exchanged
AltitudeOf_LatitudeSwapped(dec, lat, ha) ==
    Asin(Mul(Sin(dec), Cos(lat)) + Mul(Mul(Cos(dec), Sin(lat)), Cos(ha)))

\* the formulas of calculateAltAz for declination dec, latitude lat and hour
\* angle ha, all in whole degrees
AltitudeOf(dec, lat, ha) ==
    Asin(Mul(Sin(dec), Sin(lat)) + Mul(Mul(Cos(dec), Cos(lat)), Cos(ha)))

AzimuthOf(dec, lat, ha) ==
    Normalize360(Atan2(0 - Mul(Cos(dec), Sin(ha)),
                       Mul(Cos(lat), Sin(dec)) - Mul(Mul(Sin(lat), Cos(dec)), Cos(ha))))

HorizontalAt(dec, lat, ha) ==
    [altitude |-> AltitudeOf(dec, lat, ha), azimuth |-> AzimuthOf(dec, lat, ha)]

\* a faulty calculateAltAz, which takes the hour angle from the Greenwich
\* sidereal time and ignores the longitude
calculateAltAz_IgnoringLongitude(coords, location, date) ==
    HorizontalAt(coords.dec, location.lat,
                 Normalize360(getGreenwichSiderealTime(date) - coords.ra))

\* calculateAltAz(coords, location, date)
calculateAltAz(coords, location, date) ==
    HorizontalAt(coords.dec, location.lat,
                 Normalize360(getLocalSiderealTime(date, location.lon) - coords.ra))

(***************************************************************************)
(* utils/astroUtils.ts: the calculateAltAz that carries its own sidereal   *)
(* time and also returns it                                                *)
(***************************************************************************)
\* T = (jd - 2451545.0) / 36525.0 in hundredths of a century: a hundredth of
\* a century is 8766 hours
CenturiesSinceJ2000(t) == RoundDiv(HoursSinceJ2000(t), 8766)

\* 0.000387933 * T * T in tenths of a degree, for T in hundredths of a century
SquareTerm(T) == RoundDiv(ScaleBy(T * T, 387933), 1000000)

\* (T * T * T) / 38710000 in tenths of a degree, for T in hundredths of a
\* century (the cube is taken of the whole centuries)
CubeTerm(T) ==
    RoundDiv(RoundDiv(T, 100) * RoundDiv(T, 100) * RoundDiv(T, 100) * 10, 38710000)

\* gmst: the polynomial of calculateAltAz, reduced into 0..359
Gmst(t) ==
    Normalize360(JsRem(15 * HoursSinceJ2000(t)
                         + RoundDiv(2805 + SiderealGain(HoursSinceJ2000(t))
                                      + SquareTerm(CenturiesSinceJ2000(t))
                                      - CubeTerm(CenturiesSinceJ2000(t)), 10), 360))

\* lst = gmst + lon; lst = lst % 360; if (lst < 0) lst += 360
Lst(t, lon) == LocalSidereal(8 * Gmst(t), 8 * lon) \div 8

\* hourAngle = lst - ra, carried into -180..180 by the two while loops
HourAngle(l, ra) ==
    IF l - ra > 180 THEN l - ra - 360 ELSE IF l - ra < -180 THEN l - ra + 360 ELSE l - ra

Sign(x) == IF x > 0 THEN 1 ELSE IF x < 0 THEN -1 ELSE 0

\* Math.atan2(sinAz, cosAz) for sinAz = a / cosAlt and
\* cosAz = b / (cosAlt * cosLat).  Math.cos of a right angle is a very small
\* positive number and not 0, so no divisor is 0: a quotient by it is 0 for a
\* dividend 0 and otherwise beyond every other number, and two quotients by
\* the same small cosAlt keep their ratio.
Atan2OfQuotients(a, cosAlt, b, cosLat) ==
    IF cosAlt # 0 /\ cosLat # 0
    THEN Atan2(RoundDiv(a * 10000, cosAlt), RoundDiv(b * 10000, Mul(cosAlt, cosLat)))
    ELSE IF cosLat # 0 THEN Atan2(Mul(a, cosLat), b)
    ELSE IF b # 0 THEN Atan2(0, Sign(b))
    ELSE Atan2(a, 0)

\* if (azimuth < 0) azimuth += 2 * Math.PI; NaN < 0 is false
NormalizeAzimuth(az) == IF az = NaN THEN NaN ELSE Normalize360(az)

\* steps 7 and 8 of calculateAltAz from sinAlt and altitude = Math.asin(sinAlt);
\* Math.cos(NaN) is NaN
AzimuthWithLst(dec, lat, ha, sinAlt, altitude) ==
    IF altitude = NaN THEN NaN
    ELSE NormalizeAzimuth(Atan2OfQuotients(0 - Mul(Cos(dec), Sin(ha)), Cos(altitude),
                                           Sin(dec) - Mul(sinAlt, Sin(lat)),
                                           Cos(lat)))

HorizontalWithLst(dec, lat, ha, sinAlt, l) ==
    [altitude |-> Asin(sinAlt),
     azimuth  |-> AzimuthWithLst(dec, lat, ha, sinAlt, Asin(sinAlt)),
     lst      |-> l]

SinAltitude(dec, lat, ha) ==
    Mul(Sin(dec), Sin(lat)) + Mul(Mul(Cos(dec), Cos(lat)), Cos(ha))

\* calculateAltAz({ ra, dec }, { lat, lon }, date) of utils/astroUtils.ts; the
\* field lst (lst / 15 hours) is carried in fifteenths of an hour
calculateAltAzWithLst(coords, location, date) ==
    HorizontalWithLst(coords.dec, location.lat,
                      HourAngle(Lst(date, location.lon), coords.ra),
                      SinAltitude(coords.dec, location.lat,
                                  HourAngle(Lst(date, location.lon), coords.ra)),
                      Lst(date, location.lon))

(***************************************************************************)
(* three/utils: the render frame                                           *)
(***************************************************************************)
\* a faulty altAzToCartesian, with north on the positive z axis
altAzToCartesian_NorthPositiveZ(alt, az, radius) ==
    [x |-> Mul(RoundDiv(radius * Cos(alt), 100), Sin(az)),
     y |-> RoundDiv(radius * Sin(alt), 100),
     z |-> Mul(RoundDiv(radius * Cos(alt), 100), Cos(az))]

\* a faulty altAzToCartesian, which does not shorten x by the cosine of the
\* altitude
altAzToCartesian_UnscaledEast(alt, az, radius) ==
    [x |-> Mul(RoundDiv(radius * 10000, 100), Sin(az)),
     y |-> RoundDiv(radius * Sin(alt), 100),
     z |-> 0 - Mul(RoundDiv(radius * Cos(alt), 100), Cos(az))]

\* altAzToCartesian(alt, az, radius): x east, y up, z = -z_enu; alt and az in
\* whole degrees, the coordinates in hundredths of the unit of radius
altAzToCartesian(alt, az, radius) ==
    [x |-> Mul(RoundDiv(radius * Cos(alt), 100), Sin(az)),
     y |-> RoundDiv(radius * Sin(alt), 100),
     z |-> 0 - Mul(RoundDiv(radius * Cos(alt), 100), Cos(az))]

(***************************************************************************)
(* SkyViewer, animate: the position of the sprite of a star                *)
(***************************************************************************)
\* const radius = 500
SkyRadius == 500

\* Math.atan2(yVal, xVal): the azimuth as atan2 returns it, in -180..180
AzimuthAngle(dec, lat, ha) ==
    Atan2(0 - Mul(Cos(dec), Sin(ha)),
          Mul(Cos(lat), Sin(dec)) - Mul(Mul(Sin(lat), Cos(dec)), Cos(ha)))

\* rPlane = radius * Math.cos(altRad); xPos = rPlane * Math.sin(azRad);
\* yPos = radius * sinAlt; zPos = -rPlane * Math.cos(azRad), in hundredths;
\* Math.cos(NaN) is NaN
SpritePosition(sinAlt, alt, az) ==
    [x |-> IF alt = NaN THEN NaN ELSE Mul(RoundDiv(SkyRadius * Cos(alt), 100), Sin(az)),
     y |-> RoundDiv(SkyRadius * sinAlt, 100),
     z |-> IF alt = NaN THEN NaN ELSE 0 - Mul(RoundDiv(SkyRadius * Cos(alt), 100), Cos(az))]

SpriteAt(dec, lat, ha) ==
    SpritePosition(SinAltitude(dec, lat, ha), Asin(SinAltitude(dec, lat, ha)),
                   AzimuthAngle(dec, lat, ha))

\* the callback of starSpriteGroupRef.current.children.forEach for the star at
\* coords, the observer at location and the simulated time date
placeStar(coords, location, date) ==
    SpriteAt(coords.dec, location.lat,
             JsRem(getLocalSiderealTime(date, location.lon) - coords.ra + 360, 360))

(***************************************************************************)
(* astroUtils: the planet ephemeris                                        *)
(***************************************************************************)
\* planetsData: a in 1/1000 AU, e in 10^-5, the angles I, L, longPeri and
\* longNode in whole degrees, size and magnitude in hundredths
planetsData ==
    << [name |-> <<"M","e","r","c","u","r","y">>, a |-> 387, e |-> 20563, I |-> 7,
        L |-> 252, longPeri |-> 77, longNode |-> 48, color |-> "#A5A5A5",
        size |-> 38, magnitude |-> -220],
       [name |-> <<"V","e","n","u","s">>, a |-> 723, e |-> 677, I |-> 3,
        L |-> 182, longPeri |-> 132, longNode |-> 77, color |-> "#E3BB76",
        size |-> 95, magnitude |-> -460],
       [name |-> <<"E","a","r","t","h">>, a |-> 1000, e |-> 1671, I |-> 0,
        L |-> 100, longPeri |-> 103, longNode |-> 0, color |-> "#0000FF",
        size |-> 100, magnitude |-> 0],
       [name |-> <<"M","a","r","s">>, a |-> 1524, e |-> 9341, I |-> 2,
        L |-> 355, longPeri |-> 336, longNode |-> 50, color |-> "#FF4500",
        size |-> 53, magnitude |-> -230],
       [name |-> <<"J","u","p","i","t","e","r">>, a |-> 5203, e |-> 4850, I |-> 1,
        L |-> 34, longPeri |-> 15, longNode |-> 101, color |-> "#D9A066",
        size |-> 1120, magnitude |-> -290],
       [name |-> <<"S","a","t","u","r","n">>, a |-> 9555, e |-> 5555, I |-> 2,
        L |-> 50, longPeri |-> 92, longNode |-> 114, color |-> "#F4D03F",
        size |-> 945, magnitude |-> -55],
       [name |-> <<"U","r","a","n","u","s">>, a |-> 19218, e |-> 4732, I |-> 1,
        L |-> 313, longPeri |-> 171, longNode |-> 74, color |-> "#40E0D0",
        size |-> 400, magnitude |-> 550],
       [name |-> <<"N","e","p","t","u","n","e">>, a |-> 30110, e |-> 861, I |-> 2,
        L |-> 305, longPeri |-> 45, longNode |-> 132, color |-> "#4169E1",
        size |-> 388, magnitude |-> 780] >>

Earth == <<"E","a","r","t","h">>

\* one round of E = M_rad + e * Math.sin(E), in whole degrees
KeplerStep(p, M, E) ==
    M + RoundDiv(RoundDiv(p.e * Sin(E), 10000) * 57296, 100000000)

\* n = 0.9856076686 / (a * sqrt(a)) degrees a day, here in 10^-6 degrees an hour
MeanMotion(p) == RoundDiv(41067000, RoundDiv(p.a * Sqrt(p.a * 1000), 1000))

\* M = (L - longPeri + n * d) % 360, made non-negative
MeanAnomaly(p, h) ==
    Normalize360(JsRem(p.L - p.longPeri + ScaleBy(h, MeanMotion(p)), 360))

\* let E = M_rad; for (let j = 0; j < 5; j++) E = M_rad + e * Math.sin(E)
EccentricAnomaly(p, M) ==
    KeplerStep(p, M, KeplerStep(p, M, KeplerStep(p, M, KeplerStep(p, M,
        KeplerStep(p, M, M)))))

\* x_orb and y_orb for the eccentric anomaly E, in 1/1000 AU
OrbitalPlane(p, E) ==
    [x |-> RoundDiv(p.a * (Cos(E) - RoundDiv(p.e, 10)), 10000),
     y |-> RoundDiv(RoundDiv(p.a * Sqrt(100000000 - RoundDiv(p.e, 10) * RoundDiv(p.e, 10)),
                             10000) * Sin(E), 10000)]

\* x_ecl, y_ecl and z_ecl from the position orb in the orbital plane, with
\* the node N, the inclination i and the argument of the perihelion w
Ecliptic(orb, N, i, w) ==
    [x |-> RoundDiv(orb.x * (Mul(Cos(w), Cos(N)) - Mul(Mul(Sin(w), Sin(N)), Cos(i)))
                    - orb.y * (Mul(Sin(w), Cos(N)) + Mul(Mul(Cos(w), Sin(N)), Cos(i))),
                    10000),
     y |-> RoundDiv(orb.x * (Mul(Cos(w), Sin(N)) + Mul(Mul(Sin(w), Cos(N)), Cos(i)))
                    - orb.y * (Mul(Sin(w), Sin(N)) - Mul(Mul(Cos(w), Cos(N)), Cos(i))),
                    10000),
     z |-> RoundDiv(orb.x * Mul(Sin(w), Sin(i)) + orb.y * Mul(Cos(w), Sin(i)), 10000)]

\* the body of planetsData.forEach: the heliocentric position of p, in 1/1000 AU,
\* h hours after J2000
Heliocentric(p, h) ==
    Ecliptic(OrbitalPlane(p, EccentricAnomaly(p, MeanAnomaly(p, h))),
             p.longNode, p.I, p.longPeri - p.longNode)

\* the obliquity eps = 23.43928 degrees, in whole degrees
Obliquity == 23

\* Xeq, Yeq and Zeq from the geocentric ecliptic X, Y and Z
Equatorial(X, Y, Z) ==
    [x |-> X,
     y |-> RoundDiv(Y * Cos(Obliquity) - Z * Sin(Obliquity), 10000),
     z |-> RoundDiv(Y * Sin(Obliquity) + Z * Cos(Obliquity), 10000)]

\* Math.sqrt(Xeq * Xeq + Yeq * Yeq + Zeq * Zeq), halved inside to stay in 32 bits
Distance(eq) ==
    2 * Sqrt((eq.x \div 2) * (eq.x \div 2) + (eq.y \div 2) * (eq.y \div 2)
               + (eq.z \div 2) * (eq.z \div 2))

\* results.push({...p, ra, dec, dist})
Observed(p, eq, dist) ==
    [name |-> p.name,
     ra |-> Normalize360(Atan2(eq.y, eq.x)),
     dec |-> Asin(RoundDiv(eq.z * 10000, dist)),
     dist |-> dist,
     color |-> p.color,
     size |-> p.size,
     magnitude |-> p.magnitude]

ObservedAt(p, eq) == Observed(p, eq, Distance(eq))

\* the body of the second loop: the apparent state of planet p seen from earth
Apparent(p, pos, earth) ==
    ObservedAt(p, Equatorial(pos.x - earth.x, pos.y - earth.y, pos.z - earth.z))

\* a faulty second loop, without the line that skips Earth
RECURSIVE PlanetResults_KeepingEarth(_, _, _)
PlanetResults_KeepingEarth(k, positions, earth) ==
    IF k > Len(planetsData) THEN <<>>
    ELSE <<IF planetsData[k].name = Earth
           THEN Observed(planetsData[k], [x |-> 0, y |-> 0, z |-> 0], 1)
           ELSE Apparent(planetsData[k], positions[k], earth)>>
             \o PlanetResults_KeepingEarth(k + 1, positions, earth)

\* the second loop of getPlanets over planetsData[k..]: Earth is skipped
RECURSIVE PlanetResults(_, _, _)
PlanetResults(k, positions, earth) ==
    IF k > Len(planetsData) THEN <<>>
    ELSE IF planetsData[k].name = Earth
         THEN PlanetResults(k + 1, positions, earth)
         ELSE <<Apparent(planetsData[k], positions[k], earth)>>
                  \o PlanetResults(k + 1, positions, earth)

\* getPlanets(date)
getPlanets(date) ==
    LET h == HoursSinceJ2000(date)
        positions == [k \in 1..Len(planetsData) |-> Heliocentric(planetsData[k], h)]
        earth == positions[CHOOSE k \in 1..Len(planetsData) : planetsData[k].name = Earth]
    IN  PlanetResults(1, positions, earth)

(***************************************************************************)
(* Strings: a string is a sequence of one-character strings                *)
(***************************************************************************)
UpperCase == <<"A","B","C","D","E","F","G","H","I","J","K","L","M",
               "N","O","P","Q","R","S","T","U","V","W","X","Y","Z">>
LowerCase == <<"a","b","c","d","e","f","g","h","i","j","k","l","m",
               "n","o","p","q","r","s","t","u","v","w","x","y","z">>

\* String.prototype.toLowerCase
LowerOf == [c \in {UpperCase[k] : k \in 1..Len(UpperCase)} |->
               LowerCase[CHOOSE k \in 1..Len(UpperCase) : UpperCase[k] = c]]

toLowerCase(str) ==
    [i \in 1..Len(str) |-> IF str[i] \in DOMAIN LowerOf THEN LowerOf[str[i]] ELSE str[i]]

\* String.prototype.trim
RECURSIVE trimStart(_)
trimStart(str) ==
    IF str # <<>> /\ Head(str) = " " THEN trimStart(Tail(str)) ELSE str

RECURSIVE trimEnd(_)
trimEnd(str) ==
    IF str # <<>> /\ str[Len(str)] = " "
    THEN trimEnd(SubSeq(str, 1, Len(str) - 1)) ELSE str

trim(str) == trimEnd(trimStart(str))

\* String.prototype.includes
includes(str, part) ==
    \E i \in 0..(Len(str) - Len(part)) : SubSeq(str, i + 1, i + Len(part)) = part

\* Map.prototype.set on a Map kept as the sequence of its entries in insertion
\* order: an existing key keeps its place and takes the new value
mapSet(entries, key, value) ==
    IF \E i \in 1..Len(entries) : entries[i].key = key
    THEN [i \in 1..Len(entries) |->
             IF entries[i].key = key THEN [key |-> key, value |-> value] ELSE entries[i]]
    ELSE Append(entries, [key |-> key, value |-> value])

\* Map.prototype.has, Map.prototype.get and Array.from(map.values())
mapHas(entries, key) == \E i \in 1..Len(entries) : entries[i].key = key
mapGet(entries, key) == entries[CHOOSE i \in 1..Len(entries) : entries[i].key = key].value
mapValues(entries) == [i \in 1..Len(entries) |-> entries[i].value]

(***************************************************************************)
(* The inputs of a session                                                 *)
(***************************************************************************)
\* loadStarData(): the rows that pass the filter, sorted by Vmag (hundredths)
Catalog ==
    << [display_name |-> <<"S","i","r","i","u","s">>, RAJ2000 |-> 101, DEJ2000 |-> -17,
        Vmag |-> -146],
       [display_name |-> <<"V","e","g","a">>, RAJ2000 |-> 279, DEJ2000 |-> 39,
        Vmag |-> 3],
       [display_name |-> <<"M","i","n","t","a","k","a">>, RAJ2000 |-> 83, DEJ2000 |-> 0,
        Vmag |-> 223],
       [display_name |-> <<"M","A","R","S">>, RAJ2000 |-> 10, DEJ2000 |-> 60,
        Vmag |-> 300] >>

\* a catalog of sixteen stars around the sky at declination 45, sorted by
\* Vmag as loadStarData returns them
SkySize == 16
Sky ==
    [k \in 1..SkySize |->
        [display_name |-> <<"H","R"," ",LowerCase[k]>>, RAJ2000 |-> (353 + 23 * k) % 360,
         DEJ2000 |-> 45, Vmag |-> 60 * k - 300]]

\* getUserLocation(): the default location (37.7749, -122.4194) of the error
\* callback, in whole degrees
DefaultLocation == [supported |-> TRUE, latitude |-> 38, longitude |-> -122]

\* navigator.geolocation is missing: getUserLocation() rejects
Unsupported == [supported |-> FALSE, latitude |-> 0, longitude |-> 0]

\* the browser: without navigator.geolocation, or with it and
\* getCurrentPosition calling the success callback with a position or the
\* error callback (permission denied, position unavailable, timeout)
Devices ==
    {[geolocation |-> FALSE, report |-> "none", latitude |-> 0, longitude |-> 0],
     [geolocation |-> TRUE, report |-> "position", latitude |-> 51, longitude |-> 0],
     [geolocation |-> TRUE, report |-> "error", latitude |-> 0, longitude |-> 0]}

\* getUserLocation(): what the promise settles with
getUserLocation(device) ==
    IF ~device.geolocation THEN Unsupported
    ELSE IF device.report = "error" THEN DefaultLocation
    ELSE [supported |-> TRUE, latitude |-> device.latitude, longitude |-> device.longitude]

\* what a user may type into the search box
Queries ==
    { <<"v","e","g","a">>,
      <<" ","M","i","n","t","a","k","a"," ">>,
      <<"m","a","r","s">>,
      <<"S","A","T","U","R","N">>,
      <<"P","l","u","t","o">>,
      <<" ">> }

\* null is the empty sequence; a reference that is set holds <<value>>
NULL == <<>>

\* StarSearch: errorMessage is '' (no message shown)
NoError == [kind |-> "none", name |-> <<>>]

(***************************************************************************)
(* State                                                                   *)
(***************************************************************************)
VARIABLES
    now,                  \* Date.now(): the wall clock
    timeRef,              \* SimulationTimeProvider: timeRef.current
    simulationTime,       \* SimulationTimeProvider: state simulationTime
    hist,                 \* history: the last setter called on the clock
    simulationTimeRef,    \* SkyViewerInner: simulationTimeRef.current
    scenePhase,           \* "loading" until initScene has run, then "ready" or "failed"
    observer,             \* SkyViewerInner: state observer and observerRef.current
    starsByNameRef,       \* SkyViewerInner: starsByNameRef.current
    planetsRef,           \* SkyViewerInner: planetsRef.current
    cameraRef,            \* SkyViewerInner: cameraRef.current (NULL or the camera)
    cameraControl,        \* useCameraControls: cameraControlRef.current
    crosshairTarget,      \* SkyViewerInner: crosshairTargetRef.current
    belowHorizonWarning,  \* SkyViewerInner: state belowHorizonWarning
    availableStars,       \* Display: state availableStarNames
    searchInput,          \* StarSearch: state searchInput
    errorMessage,         \* StarSearch: state errorMessage
    search,               \* history: the name the last step searched for, if it was a search
    call,                 \* a call of a function of astroUtils or three/utils: its arguments
    ret,                  \* what the call returned, once it has returned
    planetGroup,          \* SkyViewerInner: planetGroupRef.current.children (planetName of each)
    crosshairSprite,      \* SkyViewerInner: crosshairSpriteRef.current (NULL or the sprite)
    labels,               \* SkyViewerInner: brightestLabelsRef.current and currentTop10
    frame,                \* what the last call of animate drew (NULL before the first)
    pointer,              \* useCameraControls: isDragging and previousMousePosition
    cachedLocationName,   \* useLocationName: the module variable cachedLocationName
    fetchingPromise,      \* useLocationName: the module variable fetchingPromise
    hooks,                \* useLocationName: the state of each component that uses the hook
    lookups               \* history: how many location lookups were started

clockVars == <<now, timeRef, simulationTime, hist, simulationTimeRef>>
sceneVars == <<scenePhase, observer, starsByNameRef, planetsRef, availableStars>>
aimVars == <<cameraRef, cameraControl, crosshairTarget, belowHorizonWarning>>
searchVars == <<searchInput, errorMessage>>
astroVars == <<call, ret>>
groupVars == <<planetGroup, crosshairSprite, labels>>
locationVars == <<cachedLocationName, fetchingPromise, hooks, lookups>>
vars == <<now, timeRef, simulationTime, hist, simulationTimeRef, scenePhase, observer,
          starsByNameRef, planetsRef, cameraRef, cameraControl, crosshairTarget,
          belowHorizonWarning, availableStars, searchInput, errorMessage, search, call, ret,
          planetGroup, crosshairSprite, labels, frame, pointer,
          cachedLocationName, fetchingPromise, hooks, lookups>>

(***************************************************************************)
(* SimulationTimeContext                                                   *)
(***************************************************************************)
\* a faulty reading of the clock, which runs on while paused
CurrentSimTime_IgnoringPause(ref, wall) ==
    ref.baseTime + (wall - ref.anchorTime) * ref.speed

\* the simulated time computed in updateAnchor and in tick from the ref
CurrentSimTime(ref, wall) ==
    IF ref.isPaused
    THEN ref.baseTime
    ELSE ref.baseTime + (wall - ref.anchorTime) * ref.speed

\* a faulty updateAnchor, which re-anchors without folding the elapsed time
updateAnchor_NotFolding(ref, wall) == [ref EXCEPT !.anchorTime = wall]

\* updateAnchor: fold the simulated time into baseTime, re-anchor at now
updateAnchor(ref, wall) ==
    [ref EXCEPT !.baseTime = CurrentSimTime(ref, wall), !.anchorTime = wall]

InRange(t) == Abs(t - Start) <= MaxSkew

\* the wall clock moves on (between two events of the single-threaded loop)
AdvanceWall ==
    /\ now < Start + MaxWall
    /\ InRange(CurrentSimTime(timeRef, now + 1))
    /\ now' = now + 1
    /\ UNCHANGED <<timeRef, simulationTime, hist, simulationTimeRef>>
    /\ UNCHANGED <<sceneVars, aimVars, searchVars>>
    /\ search' = NULL
    /\ UNCHANGED astroVars
    /\ UNCHANGED <<groupVars, frame, pointer, locationVars>>

\* tick: the requestAnimationFrame callback of the provider; the render it
\* causes runs the effect that copies simulationTime to simulationTimeRef
tick ==
    /\ simulationTime' = CurrentSimTime(timeRef, now)
    /\ simulationTimeRef' = simulationTime'
    /\ UNCHANGED <<now, timeRef, hist>>
    /\ UNCHANGED <<sceneVars, aimVars, searchVars>>
    /\ search' = NULL
    /\ UNCHANGED astroVars
    /\ UNCHANGED <<groupVars, frame, pointer, locationVars>>

\* a faulty setSpeed, which changes the rate without calling updateAnchor
setSpeed_WithoutAnchor(newSpeed) ==
    /\ timeRef' = [timeRef EXCEPT !.speed = newSpeed]
    /\ hist' = [hist EXCEPT !.op = "setSpeed", !.w0 = now, !.r = newSpeed,
                            !.s0 = CurrentSimTime(timeRef, now)]
    /\ UNCHANGED <<now, simulationTime, simulationTimeRef>>
    /\ UNCHANGED <<sceneVars, aimVars, searchVars>>
    /\ search' = NULL
    /\ UNCHANGED astroVars
    /\ UNCHANGED <<groupVars, frame, pointer, locationVars>>

\* setSpeed(newSpeed)
setSpeed(newSpeed) ==
    /\ timeRef' = [updateAnchor(timeRef, now) EXCEPT !.speed = newSpeed]
    /\ hist' = [hist EXCEPT !.op = "setSpeed", !.w0 = now, !.r = newSpeed,
                            !.s0 = CurrentSimTime(timeRef, now)]
    /\ UNCHANGED <<now, simulationTime, simulationTimeRef>>
    /\ UNCHANGED <<sceneVars, aimVars, searchVars>>
    /\ search' = NULL
    /\ UNCHANGED astroVars
    /\ UNCHANGED <<groupVars, frame, pointer, locationVars>>

\* a faulty togglePause, which flips the flag without calling updateAnchor
togglePause_WithoutAnchor ==
    /\ timeRef' = [timeRef EXCEPT !.isPaused = ~timeRef.isPaused]
    /\ hist' = [op |-> IF timeRef.isPaused THEN "resume" ELSE "pause",
                w0 |-> now,
                s0 |-> CurrentSimTime(timeRef, now),
                r |-> timeRef.speed,
                pw |-> IF timeRef.isPaused THEN hist.pw ELSE now,
                frozen |-> IF timeRef.isPaused
                           THEN hist.frozen
                           ELSE <<CurrentSimTime(timeRef, now)>>]
    /\ UNCHANGED <<now, simulationTime, simulationTimeRef>>
    /\ UNCHANGED <<sceneVars, aimVars, searchVars>>
    /\ search' = NULL
    /\ UNCHANGED astroVars
    /\ UNCHANGED <<groupVars, frame, pointer, locationVars>>

\* togglePause()
togglePause ==
    /\ timeRef' = [updateAnchor(timeRef, now) EXCEPT !.isPaused = ~timeRef.isPaused]
    /\ hist' = [op |-> IF timeRef.isPaused THEN "resume" ELSE "pause",
                w0 |-> now,
                s0 |-> CurrentSimTime(timeRef, now),
                r |-> timeRef.speed,
                pw |-> IF timeRef.isPaused THEN hist.pw ELSE now,
                frozen |-> IF timeRef.isPaused
                           THEN hist.frozen
                           ELSE <<CurrentSimTime(timeRef, now)>>]
    /\ UNCHANGED <<now, simulationTime, simulationTimeRef>>
    /\ UNCHANGED <<sceneVars, aimVars, searchVars>>
    /\ search' = NULL
    /\ UNCHANGED astroVars
    /\ UNCHANGED <<groupVars, frame, pointer, locationVars>>

\* a faulty setSimulationTime, which keeps the old anchor
setSimulationTime_KeepingAnchor(date) ==
    /\ timeRef' = [timeRef EXCEPT !.baseTime = date]
    /\ simulationTime' = date
    /\ simulationTimeRef' = date
    /\ hist' = [op |-> "setTime", w0 |-> now, s0 |-> date, r |-> timeRef.speed,
                pw |-> now, frozen |-> <<>>]
    /\ UNCHANGED now
    /\ UNCHANGED <<sceneVars, aimVars, searchVars>>
    /\ search' = NULL
    /\ UNCHANGED astroVars
    /\ UNCHANGED <<groupVars, frame, pointer, locationVars>>

\* setSimulationTime(date)
setSimulationTime(date) ==
    /\ timeRef' = [timeRef EXCEPT !.baseTime = date, !.anchorTime = now]
    /\ simulationTime' = date
    /\ simulationTimeRef' = date
    /\ hist' = [op |-> "setTime", w0 |-> now, s0 |-> date, r |-> timeRef.speed,
                pw |-> now, frozen |-> <<>>]
    /\ UNCHANGED now
    /\ UNCHANGED <<sceneVars, aimVars, searchVars>>
    /\ search' = NULL
    /\ UNCHANGED astroVars
    /\ UNCHANGED <<groupVars, frame, pointer, locationVars>>

(***************************************************************************)
(* TimeController                                                          *)
(***************************************************************************)
\* newTime.setFullYear(year + change): the hours between a date and the same
\* date of the next year (16 September of 2026 and of 2027)
YearHours == 8760

\* the years from that of Start on in which the simulated time is followed
Years == {0, 1}

\* the simulated times of a session: SimTimes and the same times of the
\* years that follow
SessionTimes == {t + YearHours * y : t \in SimTimes, y \in Years}

\* updateTime('hour', change): the displayed time moved by one hour
updateTime(change) ==
    /\ InRange(simulationTime + change)
    /\ setSimulationTime(simulationTime + change)

\* updateTime('year', change): newTime.setFullYear(year + change)
updateYear(change) ==
    /\ simulationTime + YearHours * change \in SessionTimes
    /\ setSimulationTime(simulationTime + YearHours * change)

\* handleReset: setSimulationTime(new Date())
handleReset ==
    /\ InRange(now)
    /\ setSimulationTime(now)

(***************************************************************************)
(* SkyViewer: the scene, the planets and the search                        *)
(***************************************************************************)
\* getPlanets(date) for every date of a session, computed once
Ephemeris == [date \in SessionTimes |-> getPlanets(date)]

\* (alt * Math.PI) / 180, in milliradians
degToRad(deg) == RoundDiv(deg * 31416, 1800)

\* Math.PI / 2, in milliradians
HalfPi == 1571

\* stars.forEach(star => starsByNameRef.current.set(key, star))
RECURSIVE starsByName(_)
starsByName(stars) ==
    IF stars = <<>> THEN <<>>
    ELSE LET star == stars[Len(stars)]
         IN  mapSet(starsByName(SubSeq(stars, 1, Len(stars) - 1)),
                    toLowerCase(trim(star.display_name)), star)

\* the display names of a list of stars, the names of a list of planets
displayNames(stars) == [k \in 1..Len(stars) |-> stars[k].display_name]
planetNames(planets) == [k \in 1..Len(planets) |-> planets[k].name]

\* the position of a new THREE.Object3D
Origin == [x |-> 0, y |-> 0, z |-> 0]

\* for (let i = 0; i < 10; i++): the labels of the pool
PoolSize == 10

\* brightestLabelsRef.current as initScene builds it: the labels are
\* created invisible
FreshPool ==
    [i \in 1..PoolSize |-> [textContent |-> <<>>, visible |-> FALSE, position |-> Origin]]

\* a faulty loop, which makes a new container for every planet
planetContainers_AlwaysNew(children, planets) == children \o planetNames(planets)

\* planets.forEach of updatePlanets on the children of the planet group, each
\* kept as its userData.planetName: a planet whose name none of the children
\* had before takes a new container at the end
RECURSIVE addContainers(_, _, _)
addContainers(children, existingPlanets, planets) ==
    IF planets = <<>> THEN children
    ELSE addContainers(IF Head(planets).name \in existingPlanets
                       THEN children
                       ELSE Append(children, Head(planets).name),
                       existingPlanets, Tail(planets))

\* existingPlanets.forEach: planetGroup.remove(group) for the names that are
\* not among currentPlanetNames
RECURSIVE removeContainers(_, _)
removeContainers(children, currentPlanetNames) ==
    IF children = <<>> THEN <<>>
    ELSE (IF Head(children) \in currentPlanetNames THEN <<Head(children)>> ELSE <<>>)
         \o removeContainers(Tail(children), currentPlanetNames)

\* the children of the planet group after updatePlanets has run for planets
\* (position and scale of a container are set again by animate before the
\* next frame is drawn and are kept with the frame)
planetContainers(children, planets) ==
    removeContainers(addContainers(children,
                                   {children[k] : k \in 1..Len(children)}, planets),
                     {planets[k].name : k \in 1..Len(planets)})

\* initScene: getUserLocation() settles with outcome, loadStarData() with stars;
\* the render that follows runs the effect that calls updatePlanets. A new
\* array of names passed to onStarDataLoaded re-runs the effect of StarSearch
\* that clears its error message
initScene(outcome, stars) ==
    /\ scenePhase = "loading"
    /\ IF ~outcome.supported
       THEN /\ scenePhase' = "failed"
            /\ UNCHANGED <<observer, starsByNameRef, planetsRef, availableStars, cameraRef>>
            /\ UNCHANGED errorMessage
            /\ UNCHANGED groupVars
       ELSE IF Len(stars) = 0
       THEN /\ scenePhase' = "failed"
            /\ availableStars' = <<>>
            /\ errorMessage' = NoError
            /\ UNCHANGED <<observer, starsByNameRef, planetsRef, cameraRef>>
            /\ UNCHANGED groupVars
       ELSE /\ scenePhase' = "ready"
            /\ cameraRef' = <<[fov |-> 75]>>
            /\ crosshairSprite' = <<[visible |-> FALSE, position |-> Origin]>>
            /\ labels' = [top10 |-> <<>>, pool |-> FreshPool]
            /\ observer' = [latitude |-> outcome.latitude, longitude |-> outcome.longitude]
            /\ starsByNameRef' = starsByName(stars)
            /\ planetsRef' = Ephemeris[simulationTimeRef]
            /\ planetGroup' = planetContainers(<<>>, planetsRef')
            /\ availableStars' = displayNames(mapValues(starsByNameRef'))
                                     \o planetNames(planetsRef')
            /\ errorMessage' = NoError
    /\ UNCHANGED <<cameraControl, crosshairTarget, belowHorizonWarning>>
    /\ UNCHANGED <<clockVars, searchInput>>
    /\ search' = NULL
    /\ UNCHANGED astroVars
    /\ UNCHANGED <<frame, pointer, locationVars>>

\* updatePlanets: the setInterval callback of the planet effect
updatePlanets ==
    /\ scenePhase = "ready"
    /\ planetsRef' = Ephemeris[simulationTimeRef]
    /\ IF Len(starsByNameRef) > 0
       THEN /\ availableStars' = displayNames(mapValues(starsByNameRef))
                                     \o planetNames(planetsRef')
            /\ errorMessage' = NoError
       ELSE UNCHANGED <<availableStars, errorMessage>>
    /\ planetGroup' = planetContainers(planetGroup, planetsRef')
    /\ UNCHANGED <<scenePhase, observer, starsByNameRef>>
    /\ UNCHANGED <<clockVars, aimVars, searchInput>>
    /\ search' = NULL
    /\ UNCHANGED astroVars
    /\ UNCHANGED <<crosshairSprite, labels, frame, pointer, locationVars>>

\* a faulty navigateToTarget, which takes the altitude itself as the polar angle
navigateToTarget_AltitudeAsPhi(target) ==
    IF cameraRef = NULL
    THEN UNCHANGED <<cameraRef, cameraControl, belowHorizonWarning>>
    ELSE LET altAz == calculateAltAz([ra |-> target.ra, dec |-> target.dec],
                                     [lat |-> observer.latitude, lon |-> observer.longitude],
                                     simulationTimeRef)
         IN  /\ belowHorizonWarning' = NULL
             /\ cameraControl' = [phi   |-> degToRad(altAz.altitude),
                                  theta |-> degToRad(altAz.azimuth),
                                  fov   |-> 30]
             /\ cameraRef' = <<[fov |-> 30]>>

\* cameraControlRef.current after navigateToTarget: phi = Math.PI / 2 - altRad,
\* theta = azRad, fov = 30
aimAt(altAz) ==
    [phi   |-> HalfPi - degToRad(altAz.altitude),
     theta |-> degToRad(altAz.azimuth),
     fov   |-> 30]

\* navigateToTarget(target)
navigateToTarget(target) ==
    IF cameraRef = NULL
    THEN UNCHANGED <<cameraRef, cameraControl, belowHorizonWarning>>
    ELSE LET altAz == calculateAltAz([ra |-> target.ra, dec |-> target.dec],
                                     [lat |-> observer.latitude, lon |-> observer.longitude],
                                     simulationTimeRef)
         IN  /\ belowHorizonWarning' = NULL
             /\ cameraControl' = aimAt(altAz)
             /\ cameraRef' = <<[fov |-> 30]>>

\* a faulty performSearch, which looks among the planets before the stars
performSearch_PlanetsFirst(starName) ==
    LET lowerName == toLowerCase(trim(starName))
        matches == {k \in 1..Len(planetsRef) :
                        toLowerCase(trim(planetsRef[k].name)) = lowerName}
    IN  IF matches # {}
        THEN LET planet == planetsRef[CHOOSE k \in matches : \A m \in matches : k <= m]
             IN  /\ crosshairTarget' = <<[type |-> "planet", data |-> planet]>>
                 /\ navigateToTarget([ra |-> planet.ra, dec |-> planet.dec,
                                      name |-> planet.name])
        ELSE IF mapHas(starsByNameRef, lowerName)
        THEN LET star == mapGet(starsByNameRef, lowerName)
             IN  /\ crosshairTarget' = <<[type |-> "star", data |-> star]>>
                 /\ navigateToTarget([ra |-> star.RAJ2000, dec |-> star.DEJ2000,
                                      name |-> star.display_name])
        ELSE UNCHANGED <<cameraRef, cameraControl, crosshairTarget, belowHorizonWarning>>

\* performSearch(starName)
performSearch(starName) ==
    LET lowerName == toLowerCase(trim(starName))
        matches == {k \in 1..Len(planetsRef) :
                        toLowerCase(trim(planetsRef[k].name)) = lowerName}
    IN  IF mapHas(starsByNameRef, lowerName)
        THEN LET star == mapGet(starsByNameRef, lowerName)
             IN  /\ crosshairTarget' = <<[type |-> "star", data |-> star]>>
                 /\ navigateToTarget([ra |-> star.RAJ2000, dec |-> star.DEJ2000,
                                      name |-> star.display_name])
        ELSE IF matches # {}
        THEN LET planet == planetsRef[CHOOSE k \in matches : \A m \in matches : k <= m]
             IN  /\ crosshairTarget' = <<[type |-> "planet", data |-> planet]>>
                 /\ navigateToTarget([ra |-> planet.ra, dec |-> planet.dec,
                                      name |-> planet.name])
        ELSE UNCHANGED <<cameraRef, cameraControl, crosshairTarget, belowHorizonWarning>>

\* a faulty handleSearch, which passes every name on without looking it up
handleSearch_Unchecked(text) ==
    /\ IF trim(text) = <<>>
       THEN /\ errorMessage' = [kind |-> "empty", name |-> <<>>]
            /\ searchInput' = text
            /\ UNCHANGED aimVars
       ELSE /\ performSearch(trim(text))
            /\ searchInput' = <<>>
            /\ errorMessage' = NoError
    /\ search' = <<trim(text)>>
    /\ UNCHANGED astroVars
    /\ UNCHANGED <<groupVars, frame, pointer, locationVars>>
    /\ UNCHANGED <<clockVars, sceneVars>>

\* StarSearch.handleSearch after the user typed text: onSearch is
\* Display.handleSearch, which calls searchForStar, which is performSearch
handleSearch(text) ==
    LET trimmedInput == trim(text)
        found == \E k \in 1..Len(availableStars) :
                     toLowerCase(availableStars[k]) = toLowerCase(trimmedInput)
    IN  /\ IF trimmedInput = <<>>
           THEN /\ errorMessage' = [kind |-> "empty", name |-> <<>>]
                /\ searchInput' = text
                /\ UNCHANGED aimVars
           ELSE IF found
           THEN /\ performSearch(trimmedInput)
                /\ searchInput' = <<>>
                /\ errorMessage' = NoError
           ELSE /\ errorMessage' = [kind |-> "notFound", name |-> trimmedInput]
                /\ searchInput' = text
                /\ UNCHANGED aimVars
        /\ search' = <<trimmedInput>>
        /\ UNCHANGED astroVars
        /\ UNCHANGED <<groupVars, frame, pointer, locationVars>>
    /\ UNCHANGED <<groupVars, frame, pointer, locationVars>>
        /\ UNCHANGED <<clockVars, sceneVars>>

\* availableStars.filter(star => star.toLowerCase().includes(lowerInput))
RECURSIVE filterStars(_, _)
filterStars(names, lowerInput) ==
    IF names = <<>> THEN <<>>
    ELSE (IF includes(toLowerCase(Head(names)), lowerInput) THEN <<Head(names)>> ELSE <<>>)
         \o filterStars(Tail(names), lowerInput)

\* filteredStars.slice(0, 10): the entries the dropdown shows
DropdownSize == 10

\* the names the dropdown offers after the user typed text (the effect on
\* searchInput of StarSearch and the slice of the rendering)
dropdown(text) ==
    LET filteredStars == IF trim(text) # <<>>
                         THEN filterStars(availableStars, toLowerCase(text))
                         ELSE <<>>
    IN  {filteredStars[k] : k \in {m \in 1..Len(filteredStars) : m <= DropdownSize}}

\* StarSearch.handleSelectStar(star): a click on an entry of the dropdown
handleSelectStar(star) ==
    /\ performSearch(star)
    /\ searchInput' = <<>>
    /\ errorMessage' = NoError
    /\ search' = <<star>>
    /\ UNCHANGED astroVars
    /\ UNCHANGED <<groupVars, frame, pointer, locationVars>>
    /\ UNCHANGED <<clockVars, sceneVars>>

\* handleUserInteraction: mousedown or touchstart on the scene
handleUserInteraction ==
    /\ scenePhase = "ready"
    /\ crosshairTarget' = NULL
    /\ crosshairSprite' = <<[crosshairSprite[1] EXCEPT !.visible = FALSE]>>
    /\ UNCHANGED <<cameraRef, cameraControl, belowHorizonWarning>>
    /\ UNCHANGED <<clockVars, sceneVars, searchVars>>
    /\ search' = NULL
    /\ UNCHANGED astroVars
    /\ UNCHANGED <<planetGroup, labels, frame, pointer, locationVars>>

(***************************************************************************)
(* useCameraControls: dragging and zooming                                 *)
(***************************************************************************)
\* deltaX * 0.005 and deltaY * 0.005: milliradians per pixel
DragSpeed == 5

\* Math.max(0.1, Math.min(Math.PI - 0.1, phi)), in milliradians
MinPhi == 100
MaxPhi == 2 * HalfPi - MinPhi
clampPhi(phi) == IF phi > MaxPhi THEN MaxPhi ELSE IF phi < MinPhi THEN MinPhi ELSE phi

\* zoomSpeed and the limits of the field of view, in degrees
ZoomSpeed == 2
MinFov == 5
MaxFov == 120

\* a mousedown on the container at (x, y): handleMouseDown of the camera
\* controls and, once initScene has added it, handleUserInteraction
mousedown(x, y) ==
    /\ pointer' = [isDragging |-> TRUE, previousMousePosition |-> [x |-> x, y |-> y]]
    /\ IF scenePhase = "ready"
       THEN /\ crosshairTarget' = NULL
            /\ crosshairSprite' = <<[crosshairSprite[1] EXCEPT !.visible = FALSE]>>
       ELSE UNCHANGED <<crosshairTarget, crosshairSprite>>
    /\ UNCHANGED <<cameraRef, cameraControl, belowHorizonWarning>>
    /\ UNCHANGED <<clockVars, sceneVars, searchVars>>
    /\ search' = NULL
    /\ UNCHANGED astroVars
    /\ UNCHANGED <<planetGroup, labels, frame, locationVars>>

\* handleMouseMove for a mousemove at (x, y): nothing unless dragging
handleMouseMove(x, y) ==
    /\ IF pointer.isDragging
       THEN /\ cameraControl' =
                  [cameraControl EXCEPT
                      !.theta = @ - DragSpeed * (x - pointer.previousMousePosition.x),
                      !.phi = clampPhi(@ - DragSpeed * (y - pointer.previousMousePosition.y))]
            /\ pointer' = [pointer EXCEPT !.previousMousePosition = [x |-> x, y |-> y]]
       ELSE UNCHANGED <<cameraControl, pointer>>
    /\ UNCHANGED <<cameraRef, crosshairTarget, belowHorizonWarning>>
    /\ UNCHANGED <<clockVars, sceneVars, searchVars>>
    /\ search' = NULL
    /\ UNCHANGED astroVars
    /\ UNCHANGED <<groupVars, frame, locationVars>>

\* handleMouseUp, for mouseup and mouseleave
handleMouseUp ==
    /\ pointer' = [pointer EXCEPT !.isDragging = FALSE]
    /\ UNCHANGED <<cameraRef, cameraControl, crosshairTarget, belowHorizonWarning>>
    /\ UNCHANGED <<clockVars, sceneVars, searchVars>>
    /\ search' = NULL
    /\ UNCHANGED astroVars
    /\ UNCHANGED <<groupVars, frame, locationVars>>

\* the field of view after a wheel event with the given deltaY
zoomed(fov, deltaY) ==
    IF deltaY < 0
    THEN (IF fov - ZoomSpeed < MinFov THEN MinFov ELSE fov - ZoomSpeed)
    ELSE (IF fov + ZoomSpeed > MaxFov THEN MaxFov ELSE fov + ZoomSpeed)

\* handleWheel
handleWheel(deltaY) ==
    /\ cameraControl' = [cameraControl EXCEPT !.fov = zoomed(@, deltaY)]
    /\ cameraRef' = IF cameraRef = NULL THEN NULL
                    ELSE <<[cameraRef[1] EXCEPT !.fov = zoomed(cameraControl.fov, deltaY)]>>
    /\ UNCHANGED <<crosshairTarget, belowHorizonWarning>>
    /\ UNCHANGED <<clockVars, sceneVars, searchVars>>
    /\ search' = NULL
    /\ UNCHANGED astroVars
    /\ UNCHANGED <<groupVars, frame, pointer, locationVars>>

(***************************************************************************)
(* SkyViewer: animate, the callback of requestAnimationFrame               *)
(***************************************************************************)
\* THREE.MathUtils.radToDeg: milliradians to whole degrees
radToDeg(mrad) == RoundDiv(mrad * 1800, 31416)

\* a faulty lookAtPoint, which takes theta itself as the angle about the y axis
lookAtPoint_AboutTheta(phi, theta) ==
    [x |-> Mul(Sin(radToDeg(phi)), Sin(radToDeg(theta))),
     y |-> Cos(radToDeg(phi)),
     z |-> Mul(Sin(radToDeg(phi)), Cos(radToDeg(theta)))]

\* new THREE.Vector3().setFromSphericalCoords(100, phi, Math.PI - theta):
\* x = 100 sin(phi) sin(t), y = 100 cos(phi), z = 100 sin(phi) cos(t) for
\* t = Math.PI - theta, in hundredths; phi and theta in milliradians
lookAtPoint(phi, theta) ==
    [x |-> Mul(Sin(radToDeg(phi)), Sin(radToDeg(2 * HalfPi - theta))),
     y |-> Cos(radToDeg(phi)),
     z |-> Mul(Sin(radToDeg(phi)), Cos(radToDeg(2 * HalfPi - theta)))]

\* altRad, azRad, rPlane, x, y and z of animate for the horizontal
\* coordinates altAz on the sphere of the given radius, in hundredths; the
\* sine and the cosine of NaN are NaN
positionOn(altAz, radius) ==
    IF altAz.altitude = NaN THEN [x |-> NaN, y |-> NaN, z |-> NaN]
    ELSE [x |-> Mul(RoundDiv(radius * Cos(altAz.altitude), 100), Sin(altAz.azimuth)),
          y |-> RoundDiv(radius * Sin(altAz.altitude), 100),
          z |-> 0 - Mul(RoundDiv(radius * Cos(altAz.altitude), 100), Cos(altAz.azimuth))]

\* the right ascensions and declinations a frame of a session can ask for:
\* those of the stars of the catalog and of the planets of every date
Sighted ==
    {[ra |-> Catalog[k].RAJ2000, dec |-> Catalog[k].DEJ2000] : k \in 1..Len(Catalog)}
    \cup {[ra |-> Sky[k].RAJ2000, dec |-> Sky[k].DEJ2000] : k \in 1..Len(Sky)}
    \cup UNION {{[ra |-> Ephemeris[date][k].ra, dec |-> Ephemeris[date][k].dec] :
                    k \in 1..Len(Ephemeris[date])} : date \in SessionTimes}

\* calculateAltAz and the placement of a star sprite for every such call
\* from a place that getUserLocation can give, computed once
Sightings ==
    [q \in {[coords |-> c, location |-> [lat |-> getUserLocation(d).latitude,
                                         lon |-> getUserLocation(d).longitude],
             date |-> t] : c \in Sighted, d \in Devices, t \in SessionTimes} |->
        [altAz |-> calculateAltAz(q.coords, q.location, q.date),
         sprite |-> placeStar(q.coords, q.location, q.date)]]

\* what the frame reads: observerRef.current and simulationTimeRef.current
here == [lat |-> observer.latitude, lon |-> observer.longitude]

\* calculateAltAz(coords, location, date), looked up where it was computed
altAzOf(coords, location, date) ==
    IF [coords |-> coords, location |-> location, date |-> date] \in DOMAIN Sightings
    THEN Sightings[[coords |-> coords, location |-> location, date |-> date]].altAz
    ELSE calculateAltAz(coords, location, date)

\* the sprites of the stars: userData.star of each (one star for each name)
starSprites == mapValues(starsByNameRef)

\* starSpriteGroupRef.current.children.forEach: the position of every sprite
starPositions ==
    [k \in 1..Len(starSprites) |->
        Sightings[[coords |-> [ra |-> starSprites[k].RAJ2000,
                               dec |-> starSprites[k].DEJ2000],
                   location |-> here, date |-> simulationTimeRef]].sprite]

\* planetsRef.current.find(p => p.name === name): the index of the first
\* planet of that name, 0 if there is none
findPlanet(name) ==
    IF \E k \in 1..Len(planetsRef) : planetsRef[k].name = name
    THEN CHOOSE k \in 1..Len(planetsRef) :
            /\ planetsRef[k].name = name
            /\ \A m \in 1..Len(planetsRef) : planetsRef[m].name = name => k <= m
    ELSE 0

\* planetGroupRef.current.children.forEach: the position of every container;
\* a container whose planet is not found stays where it is
planetPositions ==
    [k \in 1..Len(planetGroup) |->
        IF findPlanet(planetGroup[k]) # 0
        THEN positionOn(altAzOf([ra |-> planetsRef[findPlanet(planetGroup[k])].ra,
                                 dec |-> planetsRef[findPlanet(planetGroup[k])].dec],
                                here, simulationTimeRef), SkyRadius)
        ELSE IF frame # NULL /\ k <= Len(frame[1].planets) THEN frame[1].planets[k]
        ELSE Origin]

\* const radius = 480
CrosshairRadius == 480

\* ra and dec of a crosshair target: RAJ2000 and DEJ2000 of a star, ra and
\* dec of a planet
targetCoords(target) ==
    IF target.type = "star"
    THEN [ra |-> target.data.RAJ2000, dec |-> target.data.DEJ2000]
    ELSE [ra |-> target.data.ra, dec |-> target.data.dec]

\* Update Crosshair: the sprite after the frame
crosshairAfter ==
    IF crosshairTarget # NULL
    THEN [visible |-> TRUE,
          position |-> positionOn(altAzOf(targetCoords(crosshairTarget[1]), here,
                                          simulationTimeRef), CrosshairRadius)]
    ELSE [crosshairSprite[1] EXCEPT !.visible = FALSE]

\* allObjects.map: name, magnitude and data of the stars and the planets; of
\* data the model keeps ra and dec, which is all that animate reads of it
allObjects(stars, planets) ==
    [k \in 1..Len(stars) |->
        [name |-> stars[k].display_name, magnitude |-> stars[k].Vmag,
         ra |-> stars[k].RAJ2000, dec |-> stars[k].DEJ2000]]
    \o [k \in 1..Len(planets) |->
        [name |-> planets[k].name, magnitude |-> planets[k].magnitude,
         ra |-> planets[k].ra, dec |-> planets[k].dec]]

\* a faulty filter, which keeps the objects below the horizon
visibleObjects_All(objects, location, date) == objects

\* .map(obj => altAz.altitude <= 0 ? null : {...}).filter(Boolean); NaN <= 0
\* is false
RECURSIVE visibleObjects(_, _, _)
visibleObjects(objects, location, date) ==
    IF objects = <<>> THEN <<>>
    ELSE (IF altAzOf([ra |-> Head(objects).ra, dec |-> Head(objects).dec],
                     location, date).altitude <= 0
          THEN <<>> ELSE <<Head(objects)>>)
         \o visibleObjects(Tail(objects), location, date)

\* the place of item in a list sorted by magnitude: behind every item that is
\* not fainter (Array.prototype.sort is stable)
RECURSIVE insertByMagnitude(_, _)
insertByMagnitude(sorted, item) ==
    IF sorted = <<>> THEN <<item>>
    ELSE IF Head(sorted).magnitude <= item.magnitude
         THEN <<Head(sorted)>> \o insertByMagnitude(Tail(sorted), item)
         ELSE <<item>> \o sorted

\* visibleObjects.sort((a, b) => a.magnitude - b.magnitude)
RECURSIVE sortByMagnitude(_)
sortByMagnitude(objects) ==
    IF objects = <<>> THEN <<>>
    ELSE insertByMagnitude(sortByMagnitude(SubSeq(objects, 1, Len(objects) - 1)),
                           objects[Len(objects)])

\* visibleObjects.slice(0, 10)
TopSize == 10

slice(sorted) == SubSeq(sorted, 1, IF Len(sorted) < TopSize THEN Len(sorted) ELSE TopSize)

\* currentTop10 after the selection of the labels
selectTop10(stars, planets, location, date) ==
    slice(sortByMagnitude(visibleObjects(allObjects(stars, planets), location, date)))

\* brightestLabelsRef.current.forEach of the selection: the label shows the
\* name of the i-th item or is hidden
relabel(pool, top10) ==
    [i \in 1..Len(pool) |->
        IF i <= Len(top10)
        THEN [pool[i] EXCEPT !.textContent = top10[i].name, !.visible = TRUE]
        ELSE [pool[i] EXCEPT !.visible = FALSE]]

\* currentTop10.forEach: the label of every item, if it is visible, moves
\* to the item
moveLabels(pool, top10, location, date) ==
    [i \in 1..Len(pool) |->
        IF i <= Len(top10) /\ pool[i].visible
        THEN [pool[i] EXCEPT !.position =
                 positionOn(altAzOf([ra |-> top10[i].ra, dec |-> top10[i].dec],
                                    location, date), SkyRadius)]
        ELSE pool[i]]

\* the labels after a frame that selects them
relabelled(pool, top10, location, date) ==
    [top10 |-> top10, pool |-> moveLabels(relabel(pool, top10), top10, location, date)]

\* the selection of the labels, at most once a second, and their positions
labelsAfter(refresh) ==
    IF refresh
    THEN relabelled(labels.pool, selectTop10(starSprites, planetsRef, here,
                                             simulationTimeRef),
                    here, simulationTimeRef)
    ELSE [top10 |-> labels.top10,
          pool |-> moveLabels(labels.pool, labels.top10, here, simulationTimeRef)]

\* what the ray through the mouse position can hit: nothing, the sprite of
\* the container at an index of the planet group, or the sprite of a star
Hits ==
    {NULL} \cup {<<[kind |-> "planet", index |-> k]>> : k \in 1..Len(planetGroup)}
           \cup {<<[kind |-> "star", index |-> k]>> : k \in 1..Len(starSprites)}

\* newHoveredStar and newHoveredAltAz for what the ray hit: the planet at the
\* index of the container in the planet group, or the star of the sprite
hovered(hit) ==
    IF hit = NULL THEN NULL
    ELSE IF hit[1].kind = "planet"
    THEN (IF hit[1].index <= Len(planetsRef)
          THEN <<[name |-> planetsRef[hit[1].index].name,
                  altAz |-> altAzOf([ra |-> planetsRef[hit[1].index].ra,
                                     dec |-> planetsRef[hit[1].index].dec],
                                    here, simulationTimeRef)]>>
          ELSE NULL)
    ELSE <<[name |-> starSprites[hit[1].index].display_name,
            altAz |-> altAzOf([ra |-> starSprites[hit[1].index].RAJ2000,
                               dec |-> starSprites[hit[1].index].DEJ2000],
                              here, simulationTimeRef)]>>

\* animate: one frame. refresh says whether more than a second has passed
\* since the labels were selected, hit what the ray through the mouse hits.
\* frame keeps what the frame read (the time and the crosshair target) and
\* what it drew. The first call, at the end of initScene, is a step of its
\* own as well
animate(refresh, hit) ==
    /\ scenePhase = "ready"
    /\ cameraRef' = <<[fov |-> cameraControl.fov]>>
    /\ crosshairSprite' = <<crosshairAfter>>
    /\ labels' = labelsAfter(refresh)
    /\ frame' = <<[time |-> simulationTimeRef,
                   target |-> crosshairTarget,
                   lookAt |-> lookAtPoint(cameraControl.phi, cameraControl.theta),
                   ground |-> IF cameraControl.phi <= HalfPi THEN 1000
                              ELSE IF cameraControl.phi - HalfPi >= degToRad(60) THEN 0
                              ELSE 1000 - RoundDiv((cameraControl.phi - HalfPi) * 1000,
                                                   degToRad(60)),
                   stars |-> starPositions,
                   planets |-> planetPositions,
                   crosshair |-> crosshairAfter,
                   hit |-> hit,
                   hovered |-> hovered(hit)]>>
    /\ UNCHANGED <<cameraControl, crosshairTarget, belowHorizonWarning, planetGroup>>
    /\ UNCHANGED <<clockVars, sceneVars, searchVars>>
    /\ search' = NULL
    /\ UNCHANGED astroVars
    /\ UNCHANGED <<pointer, locationVars>>

(***************************************************************************)
(* useLocationName: the name of the place, looked up once for all hooks    *)
(***************************************************************************)
\* the components that use the hook
MaxHooks == 3
Components == 1..MaxHooks

\* the texts a hook shows besides the name of a place
Locating == "Locating..."
LocationUnavailable == "Location Unavailable"

\* what fetch and response.json() of the reverse geocoding can give: a reply
\* with a city, a reply without one, or an error
Replies ==
    {[ok |-> TRUE, city |-> "San Francisco, California"],
     [ok |-> TRUE, city |-> ""],
     [ok |-> FALSE, city |-> ""]}

\* a faulty test, which starts a lookup whenever no name is cached
mustFetch_WhenNotCached(cached, promise) == cached = NULL

\* if (!fetchingPromise): a lookup is started when none was started before
mustFetch(cached, promise) == promise = NULL

\* the effect of the hook in component h: the cached name is shown at once;
\* otherwise a lookup is started unless there is one, and the hook waits for
\* the promise. useState starts from the cached name or 'Locating...'
mount(h) ==
    /\ ~hooks[h].mounted
    /\ IF cachedLocationName # NULL
       THEN /\ hooks' = [hooks EXCEPT ![h] = [mounted |-> TRUE,
                                              locationName |-> cachedLocationName[1],
                                              found |-> "cached"]]
            /\ UNCHANGED <<fetchingPromise, lookups>>
       ELSE /\ hooks' = [hooks EXCEPT ![h] = [mounted |-> TRUE, locationName |-> Locating,
                                              found |-> IF fetchingPromise = NULL
                                                        THEN "nothing"
                                                        ELSE fetchingPromise[1].state]]
            /\ IF mustFetch(cachedLocationName, fetchingPromise)
               THEN /\ fetchingPromise' = <<[state |-> "locating", value |-> Locating,
                                             then |-> {h}]>>
                    /\ lookups' = lookups + 1
               ELSE /\ fetchingPromise' =
                          <<[fetchingPromise[1] EXCEPT !.then = @ \cup {h}]>>
                    /\ UNCHANGED lookups
    /\ UNCHANGED cachedLocationName
    /\ UNCHANGED <<clockVars, sceneVars, aimVars, searchVars, astroVars>>
    /\ UNCHANGED <<groupVars, frame, pointer>>
    /\ search' = NULL

\* await getUserLocation() of the lookup settles: a rejection ends the lookup
\* in the catch, a location with a latitude or a longitude of 0 ends it
\* without a request, any other location is sent to the reverse geocoding
located(outcome) ==
    /\ fetchingPromise # NULL
    /\ fetchingPromise[1].state = "locating"
    /\ fetchingPromise' =
          <<IF outcome.supported /\ outcome.latitude # 0 /\ outcome.longitude # 0
            THEN [fetchingPromise[1] EXCEPT !.state = "fetching"]
            ELSE [fetchingPromise[1] EXCEPT !.state = "fulfilled",
                                            !.value = LocationUnavailable]>>
    /\ UNCHANGED <<cachedLocationName, hooks, lookups>>
    /\ UNCHANGED <<clockVars, sceneVars, aimVars, searchVars, astroVars>>
    /\ UNCHANGED <<groupVars, frame, pointer>>
    /\ search' = NULL

\* await fetch(...) and await response.json() settle: a reply with a city
\* is cached and returned, everything else gives 'Location Unavailable'
fetched(reply) ==
    /\ fetchingPromise # NULL
    /\ fetchingPromise[1].state = "fetching"
    /\ IF reply.ok /\ reply.city # ""
       THEN /\ cachedLocationName' = <<reply.city>>
            /\ fetchingPromise' = <<[fetchingPromise[1] EXCEPT !.state = "fulfilled",
                                                                !.value = reply.city]>>
       ELSE /\ UNCHANGED cachedLocationName
            /\ fetchingPromise' = <<[fetchingPromise[1] EXCEPT !.state = "fulfilled",
                                                                !.value = LocationUnavailable]>>
    /\ UNCHANGED <<hooks, lookups>>
    /\ UNCHANGED <<clockVars, sceneVars, aimVars, searchVars, astroVars>>
    /\ UNCHANGED <<groupVars, frame, pointer>>
    /\ search' = NULL

\* the callback that the hook of component h passed to fetchingPromise.then
\* runs: setLocationName(name)
showName(h) ==
    /\ fetchingPromise # NULL
    /\ fetchingPromise[1].state = "fulfilled"
    /\ h \in fetchingPromise[1].then
    /\ hooks' = [hooks EXCEPT ![h].locationName = fetchingPromise[1].value]
    /\ fetchingPromise' = <<[fetchingPromise[1] EXCEPT !.then = @ \ {h}]>>
    /\ UNCHANGED <<cachedLocationName, lookups>>
    /\ UNCHANGED <<clockVars, sceneVars, aimVars, searchVars, astroVars>>
    /\ UNCHANGED <<groupVars, frame, pointer>>
    /\ search' = NULL

(***************************************************************************)
(* starDataLoader: loadStarData                                            *)
(***************************************************************************)
\* parseFloat(field) || fallback: a field that is missing or no number parses
\* to NaN, and NaN and 0 are falsy
parseFloatOr(field, fallback) == IF field = NaN \/ field = 0 THEN fallback ELSE field

\* the numbers of a line of the file (Vmag in hundredths)
parseRow(row) ==
    [display_name |-> row.display_name,
     RAJ2000 |-> parseFloatOr(row.RAJ2000, 0),
     DEJ2000 |-> parseFloatOr(row.DEJ2000, 0),
     Vmag |-> parseFloatOr(row.Vmag, 9900)]

\* ra >= 0 && ra <= 360 && dec >= -90 && dec <= 90 && vmag < 99
isValidStar(star) ==
    /\ star.RAJ2000 >= 0 /\ star.RAJ2000 <= 360
    /\ star.DEJ2000 >= -90 /\ star.DEJ2000 <= 90
    /\ star.Vmag < 9900

\* the stars pushed by the loop over the lines
RECURSIVE validStars(_)
validStars(rows) ==
    IF rows = <<>> THEN <<>>
    ELSE (IF isValidStar(parseRow(Head(rows))) THEN <<parseRow(Head(rows))>> ELSE <<>>)
         \o validStars(Tail(rows))

RECURSIVE insertByVmag(_, _)
insertByVmag(sorted, star) ==
    IF sorted = <<>> THEN <<star>>
    ELSE IF Head(sorted).Vmag <= star.Vmag
         THEN <<Head(sorted)>> \o insertByVmag(Tail(sorted), star)
         ELSE <<star>> \o sorted

\* stars.sort((a, b) => a.Vmag - b.Vmag)
RECURSIVE sortByVmag(_)
sortByVmag(stars) ==
    IF stars = <<>> THEN <<>>
    ELSE insertByVmag(sortByVmag(SubSeq(stars, 1, Len(stars) - 1)), stars[Len(stars)])

\* stars.slice(0, 400)
Brightest == 400

\* loadStarData() for the lines of star_data.csv after the header
loadStarData(rows) ==
    SubSeq(sortByVmag(validStars(rows)), 1,
           IF Len(validStars(rows)) < Brightest THEN Len(validStars(rows)) ELSE Brightest)

(***************************************************************************)
(* The functions of astroUtils, three/utils and the loader on their own    *)
(***************************************************************************)
\* timestamps in hours since 1970: about 3050 BC, 1969-12-21T18:00Z (before
\* the Unix epoch, Greenwich sidereal time 0), J2000 itself, Start, and about
\* the year 6990
Dates == {-44000000, -246, 262980, Start, 44000000}

\* right ascensions, declinations, latitudes and longitudes in whole degrees
RightAscensions == {0, 90, 101, 180, 270, 360}
Declinations == {-90, -17, 0, 8, 90}
Latitudes == {-90, 0, 8, 38, 90}
Longitudes == {-180, -122, 0, 180}

\* longitudes in eighths of a degree: the whole degrees, and 115.125 degrees
\* west and east
FineLongitudes == {8 * lon : lon \in Longitudes} \cup {-921, 921}

\* horizontal coordinates in whole degrees and radii of the sky spheres
Altitudes == {-90, -45, 0, 30, 90}
Azimuths == {0, 45, 90, 180, 270, 359}
Radii == {1, 100, 500}

\* lines of star_data.csv: a line with coordinates in and out of range, with
\* and without a magnitude, before a line of a star
Rows ==
    {[display_name |-> <<"H","D">>, RAJ2000 |-> ra, DEJ2000 |-> dec, Vmag |-> vmag] :
        ra \in {-1, 0, 83, 359, 360, 361, NaN}, dec \in {-91, -90, 0, 90, 91, NaN},
        vmag \in {-146, 223, 9900, NaN}}

Sheets ==
    {<<row, [display_name |-> <<"V","e","g","a">>, RAJ2000 |-> 279, DEJ2000 |-> 39,
             Vmag |-> 3]>> : row \in Rows}

\* the labels before a selection: as created, or all on display from an
\* earlier selection
Pools ==
    {FreshPool,
     [i \in 1..PoolSize |-> [textContent |-> <<"o","l","d">>, visible |-> TRUE,
                              position |-> Origin]]}

\* the altitudes above the horizon and azimuths every five degrees and just
\* below 360 to which a search turns the camera
AimAltitudes == 1..90
AimAzimuths == {5 * k : k \in 0..71} \cup {359}

AltAzCalls(fn) ==
    {[fn |-> fn, coords |-> [ra |-> ra, dec |-> dec],
      location |-> [lat |-> lat, lon |-> lon], date |-> date] :
        ra \in RightAscensions, dec \in Declinations, lat \in Latitudes,
        lon \in Longitudes, date \in Dates}

Calls ==
    {[fn |-> "getGreenwichSiderealTime", date |-> date] : date \in Dates}
    \cup {[fn |-> "getLocalSiderealTime", date |-> date, longitude |-> lon] :
            date \in Dates, lon \in FineLongitudes}
    \cup AltAzCalls("calculateAltAz")
    \cup AltAzCalls("calculateAltAzWithLst")
    \cup AltAzCalls("placeStar")
    \cup {[fn |-> "altAzToCartesian", alt |-> alt, az |-> az, radius |-> radius] :
            alt \in Altitudes, az \in Azimuths, radius \in Radii}
    \cup {[fn |-> "loadStarData", rows |-> rows] : rows \in Sheets}
    \cup {[fn |-> "labels", stars |-> stars, pool |-> pool,
             location |-> [lat |-> getUserLocation(d).latitude,
                           lon |-> getUserLocation(d).longitude], date |-> date] :
            stars \in {Sky, Catalog}, pool \in Pools, d \in Devices, date \in SessionTimes}
    \cup {[fn |-> "lookAt", alt |-> alt, az |-> az] :
            alt \in AimAltitudes, az \in AimAzimuths}

\* the call is of fn and has not returned
Pending(fn) == call # NULL /\ ret = NULL /\ call[1].fn = fn

Return(value) ==
    /\ ret' = <<value>>
    /\ UNCHANGED <<call, clockVars, sceneVars, aimVars, searchVars, search>>
    /\ UNCHANGED <<groupVars, frame, pointer, locationVars>>

CallGreenwichSiderealTime ==
    /\ Pending("getGreenwichSiderealTime")
    /\ Return(getGreenwichSiderealTime(call[1].date))

\* getLocalSiderealTime(date, longitude), the longitude and the result in
\* eighths of a degree
CallLocalSiderealTime ==
    /\ Pending("getLocalSiderealTime")
    /\ Return(LocalSidereal(8 * getGreenwichSiderealTime(call[1].date), call[1].longitude))

CallCalculateAltAz ==
    /\ Pending("calculateAltAz")
    /\ Return(calculateAltAz(call[1].coords, call[1].location, call[1].date))

CallCalculateAltAzWithLst ==
    /\ Pending("calculateAltAzWithLst")
    /\ Return(calculateAltAzWithLst(call[1].coords, call[1].location, call[1].date))

CallAltAzToCartesian ==
    /\ Pending("altAzToCartesian")
    /\ Return(altAzToCartesian(call[1].alt, call[1].az, call[1].radius))

CallPlaceStar ==
    /\ Pending("placeStar")
    /\ Return(placeStar(call[1].coords, call[1].location, call[1].date))

\* the point at which the camera looks in the frame after navigateToTarget
\* has turned it to a target at alt and az
CallLookAt ==
    /\ Pending("lookAt")
    /\ Return(lookAtPoint(aimAt([altitude |-> call[1].alt, azimuth |-> call[1].az]).phi,
                          aimAt([altitude |-> call[1].alt, azimuth |-> call[1].az]).theta))

\* the labels after a frame that selects them, for the stars of a catalog
\* and the planets of the date
CallLabels ==
    /\ Pending("labels")
    /\ Return(relabelled(call[1].pool,
                         selectTop10(call[1].stars, Ephemeris[call[1].date],
                                     call[1].location, call[1].date),
                         call[1].location, call[1].date))

CallLoadStarData ==
    /\ Pending("loadStarData")
    /\ Return(loadStarData(call[1].rows))

\* the application after construction
Constructed ==
    /\ now = Start
    /\ timeRef = [baseTime |-> Start, anchorTime |-> Start, speed |-> 1, isPaused |-> FALSE]
    /\ simulationTime = Start
    /\ simulationTimeRef = Start
    /\ hist = [op |-> "init", w0 |-> Start, s0 |-> Start, r |-> 1,
               pw |-> Start, frozen |-> <<>>]
    /\ scenePhase = "loading"
    /\ observer = [latitude |-> 0, longitude |-> 0]
    /\ starsByNameRef = <<>>
    /\ planetsRef = <<>>
    /\ cameraRef = NULL
    /\ cameraControl = [phi |-> HalfPi, theta |-> 0, fov |-> 75]
    /\ crosshairTarget = NULL
    /\ belowHorizonWarning = NULL
    /\ availableStars = <<>>
    /\ searchInput = <<>>
    /\ errorMessage = NoError
    /\ search = NULL
    /\ planetGroup = <<>>
    /\ crosshairSprite = NULL
    /\ labels = [top10 |-> <<>>, pool |-> <<>>]
    /\ frame = NULL
    /\ pointer = [isDragging |-> FALSE, previousMousePosition |-> [x |-> 0, y |-> 0]]
    /\ cachedLocationName = NULL
    /\ fetchingPromise = NULL
    /\ hooks = [h \in Components |-> [mounted |-> FALSE, locationName |-> Locating,
                                      found |-> "nothing"]]
    /\ lookups = 0

(***************************************************************************)
(* Specifications                                                          *)
(***************************************************************************)
Init ==
    /\ Constructed
    /\ call = NULL
    /\ ret = NULL

\* the application: SkyViewer with its TimeController and the search box (no
\* component of the application calls setSpeed or togglePause)
Next ==
    \/ AdvanceWall
    \/ tick
    \/ \E change \in {-1, 1} : updateTime(change)
    \/ handleReset
    \/ \E device \in Devices : \E stars \in {Catalog, <<>>} :
          initScene(getUserLocation(device), stars)
    \/ updatePlanets
    \/ \E text \in Queries : handleSearch(text)
    \/ \E text \in Queries : \E star \in dropdown(text) : handleSelectStar(star)
    \/ handleUserInteraction

Spec == Init /\ [][Next]_vars

\* the provider alone, driven through every function of its context value
NextClock ==
    \/ AdvanceWall
    \/ tick
    \/ \E r \in Rates : setSpeed(r)
    \/ togglePause
    \/ \E t \in SimTimes : setSimulationTime(t)

SpecClock == Init /\ [][NextClock]_vars

\* the name picked from the dropdown while the frames are followed
Picked == {<<"S","a","t","u","r","n">>}

\* what the mouse points at while the frames are followed: nothing, or
\* the sprite of the sixth container of the planet group
Pointed == {hit \in Hits : hit = NULL \/ (hit[1].kind = "planet" /\ hit[1].index = 6)}

\* the scene with its render loop: the frames, the refresh of the planets,
\* the search, and the years of the TimeController
NextFrame ==
    \/ \E device \in {d \in Devices : d.report = "error"} :
          initScene(getUserLocation(device), Catalog)
    \/ \E change \in {-1, 1} : updateYear(change)
    \/ updatePlanets
    \/ \E k \in 1..Len(availableStars) :
          availableStars[k] \in Picked /\ handleSelectStar(availableStars[k])
    \/ handleUserInteraction
    \/ \E refresh \in BOOLEAN : \E hit \in Pointed : animate(refresh, hit)

SpecFrame == Init /\ [][NextFrame]_vars

\* a device that reports a place from which Vega is within three degrees of
\* the zenith at Start
Overhead == [geolocation |-> TRUE, report |-> "position", latitude |-> 39, longitude |-> 160]

\* the pixels at which the mouse events of the camera controls happen, and
\* how far a drag may turn the camera to either side, in milliradians
ClientXs == {0, 100}
ClientYs == {0, 400}
MaxTheta == 500

\* the camera controls: drags, wheel events and searches for Vega
NextCamera ==
    \/ initScene(getUserLocation(Overhead), Catalog)
    \/ \E x \in ClientXs : \E y \in ClientYs : mousedown(x, y)
    \/ \E x \in ClientXs : \E y \in ClientYs :
          /\ Abs(cameraControl.theta - DragSpeed * (x - pointer.previousMousePosition.x))
                <= MaxTheta
          /\ handleMouseMove(x, y)
    \/ handleMouseUp
    \/ \E deltaY \in {-100, 100} : handleWheel(deltaY)
    \/ \E k \in 1..Len(availableStars) :
          availableStars[k] = <<"V","e","g","a">> /\ handleSelectStar(availableStars[k])

SpecCamera == Init /\ [][NextCamera]_vars

\* the hooks of useLocationName in the components of a page
NextLocation ==
    \/ \E h \in Components : mount(h)
    \/ \E device \in Devices : located(getUserLocation(device))
    \/ \E reply \in Replies : fetched(reply)
    \/ \E h \in Components : showName(h)

SpecLocation == Init /\ [][NextLocation]_vars

\* the browser calls one of the callbacks of getCurrentPosition, the request
\* of the reverse geocoding settles, and a callback passed to then is run
FairLocation ==
    /\ SpecLocation
    /\ WF_vars(\E device \in Devices : located(getUserLocation(device)))
    /\ WF_vars(\E reply \in Replies : fetched(reply))
    /\ \A h \in Components : WF_vars(showName(h))

\* the functions of astroUtils and three/utils, each called once on arguments
\* drawn from Calls
InitAstro ==
    /\ Constructed
    /\ call \in {<<c>> : c \in Calls}
    /\ ret = NULL

NextAstro ==
    \/ CallGreenwichSiderealTime
    \/ CallLocalSiderealTime
    \/ CallCalculateAltAz
    \/ CallCalculateAltAzWithLst
    \/ CallAltAzToCartesian
    \/ CallPlaceStar
    \/ CallLoadStarData
    \/ CallLookAt
    \/ CallLabels

SpecAstro == InitAstro /\ [][NextAstro]_vars

(***************************************************************************)
(* Claims about the virtual clock                                          *)
(***************************************************************************)
\* the simulated time the data model's invariant assigns to wall time w
SampleAt(ref, w) ==
    IF ref.isPaused THEN ref.baseTime
    ELSE ref.baseTime + (w - ref.anchorTime) * ref.speed

\* C1: every tick publishes baseTime when paused and
\* baseTime + (now - anchorTime) * rate otherwise, and leaves baseTime,
\* anchorTime, rate and paused as they were.
C1_SampleIsPure ==
    [][tick => /\ simulationTime' = SampleAt(timeRef, now)
               /\ timeRef' = timeRef]_vars

\* a tick has published the time of a running clock, some wall time after its anchor
C1_Witness ==
    /\ ~timeRef.isPaused
    /\ timeRef.speed = 2
    /\ now > timeRef.anchorTime
    /\ simulationTime = timeRef.baseTime + (now - timeRef.anchorTime) * 2

\* C2: setSpeed and togglePause keep the simulated time of the current wall
\* time and leave the anchor at the current wall time.
C2_Continuous ==
    [][((\E r \in Rates : setSpeed(r)) \/ togglePause)
         => /\ SampleAt(timeRef', now') = SampleAt(timeRef, now)
            /\ timeRef'.anchorTime = now']_vars

\* setSpeed has just been called on a running clock that had moved since its anchor
C2_Witness ==
    /\ hist.op = "setSpeed"
    /\ hist.w0 = now
    /\ timeRef.anchorTime = now
    /\ ~timeRef.isPaused
    /\ hist.s0 # Start
    /\ hist.r # 1

\* C3: after setSpeed(r) at wall time w0 on a running clock showing s0, and
\* no other setter since, the simulated time at wall time w0 + d is s0 + r * d.
C3_RateFromCallTime ==
    (hist.op = "setSpeed" /\ ~timeRef.isPaused)
        => SampleAt(timeRef, now) = hist.s0 + hist.r * (now - hist.w0)

\* setSpeed(2) was called after the clock had run, and one wall tick later a
\* tick shows the time two ticks on
C3_Witness ==
    /\ hist.op = "setSpeed"
    /\ ~timeRef.isPaused
    /\ hist.r = 2
    /\ hist.w0 > Start
    /\ hist.s0 # Start
    /\ now = hist.w0 + 1
    /\ simulationTime = hist.s0 + 2

\* C4: while paused the simulated time stays at the value it had when the
\* clock was paused, and after the next togglePause it resumes from that value.
C4_PauseFreezes ==
    /\ (timeRef.isPaused /\ hist.frozen # <<>>)
          => SampleAt(timeRef, now) = hist.frozen[1]
    /\ (hist.op = "resume" /\ hist.frozen # <<>>)
          => SampleAt(timeRef, now) = hist.frozen[1] + timeRef.speed * (now - hist.w0)

\* the clock was paused, the wall clock moved, the clock was resumed and ran on
C4_Witness ==
    /\ hist.op = "resume"
    /\ hist.frozen # <<>>
    /\ hist.w0 > hist.pw
    /\ now > hist.w0
    /\ timeRef.speed # 0
    /\ simulationTime = hist.frozen[1] + timeRef.speed * (now - hist.w0)

\* C5: setSimulationTime(t) makes the simulated time of the current wall
\* time t, anchors at the current wall time and keeps rate and paused; later
\* samples count only the wall time after the call.
C5_SetTimeStep ==
    \A t \in SimTimes :
        setSimulationTime(t)
            => /\ SampleAt(timeRef', now') = t
               /\ timeRef'.anchorTime = now'
               /\ timeRef'.speed = timeRef.speed
               /\ timeRef'.isPaused = timeRef.isPaused

C5_SetTime ==
    /\ [][C5_SetTimeStep]_vars
    /\ [](hist.op = "setTime"
            => SampleAt(timeRef, now) =
                 IF timeRef.isPaused THEN hist.s0
                 ELSE hist.s0 + timeRef.speed * (now - hist.w0))

\* the time was set on a clock that had run since its anchor, and the clock ran on
C5_Witness ==
    /\ hist.op = "setTime"
    /\ hist.w0 > Start
    /\ now > hist.w0
    /\ ~timeRef.isPaused
    /\ timeRef.speed = 2
    /\ hist.s0 # Start
    /\ simulationTime = hist.s0 + 2 * (now - hist.w0)

(***************************************************************************)
(* Claims about the search                                                 *)
(***************************************************************************)
\* the last step looked name up in the scene: a submitted name the search box
\* knew, or an entry picked from the dropdown
Located(name) == search = <<name>> /\ name # <<>> /\ errorMessage.kind = "none"

\* the elements of a sequence
Range(seq) == {seq[k] : k \in 1..Len(seq)}

\* the loaded stars and the planets whose name is name, ignoring case
StarsNamed(name) ==
    {k \in 1..Len(starsByNameRef) :
        toLowerCase(starsByNameRef[k].value.display_name) = toLowerCase(name)}
PlanetsNamed(name) ==
    {k \in 1..Len(planetsRef) : toLowerCase(planetsRef[k].name) = toLowerCase(name)}

\* the target the contract resolves name to: a star if one matches, else a planet
Resolved(name) ==
    IF StarsNamed(name) # {}
    THEN LET star == starsByNameRef[CHOOSE k \in StarsNamed(name) : TRUE].value
         IN  [ra |-> star.RAJ2000, dec |-> star.DEJ2000, name |-> star.display_name]
    ELSE LET planet == planetsRef[CHOOSE k \in PlanetsNamed(name) : TRUE]
         IN  [ra |-> planet.ra, dec |-> planet.dec, name |-> planet.name]

\* toHorizontal for the resolved target, the observer and the simulated time
ResolvedAltAz(name) ==
    calculateAltAz([ra |-> Resolved(name).ra, dec |-> Resolved(name).dec],
                   [lat |-> observer.latitude, lon |-> observer.longitude],
                   simulationTimeRef)

\* C6: a located name resolves to the star of that name, ignoring case, if
\* there is one, and to the planet of that name only if there is no such star;
\* a name that a star and a planet share resolves to the star.
C6_StarsFirst ==
    \A name \in Range(search) :
        Located(name) =>
            IF StarsNamed(name) # {}
            THEN \E k \in StarsNamed(name) :
                    crosshairTarget = <<[type |-> "star", data |-> starsByNameRef[k].value]>>
            ELSE \E k \in PlanetsNamed(name) :
                    crosshairTarget = <<[type |-> "planet", data |-> planetsRef[k]]>>

\* "mars" was searched while the planet Mars was loaded, and the star MARS is
\* the target
C6_Witness ==
    /\ search = << <<"m","a","r","s">> >>
    /\ crosshairTarget # NULL
    /\ crosshairTarget[1].type = "star"
    /\ crosshairTarget[1].data.display_name = <<"M","A","R","S">>
    /\ \E k \in 1..Len(planetsRef) : planetsRef[k].name = <<"M","a","r","s">>
    /\ cameraControl.fov = 30

\* C7: locating a target whose altitude is <= 0 reports it as below the
\* horizon by name and leaves the camera's phi, theta and field of view alone.
C7_BelowHorizonRefused ==
    [][\A name \in Range(search') :
          (/\ Located(name)'
           /\ ResolvedAltAz(name).altitude <= 0)
              => /\ cameraControl' = cameraControl
                 /\ cameraRef' = cameraRef
                 /\ belowHorizonWarning' = <<Resolved(name).name>>]_vars

\* C8: a search for a name that no star and no planet has reports the name as
\* not found, an outcome no successful search shows, and leaves the camera
\* and the crosshair target alone.
C8_NotFound ==
    [][\A name \in Range(search') :
          (name # <<>> /\ StarsNamed(name) \cup PlanetsNamed(name) = {})
              => /\ errorMessage' = [kind |-> "notFound", name |-> name]
                 /\ errorMessage' # NoError
                 /\ UNCHANGED <<cameraRef, cameraControl, crosshairTarget>>]_vars

\* "Pluto" was searched in a scene with stars and planets after the camera had
\* been aimed at a target
C8_Witness ==
    /\ scenePhase = "ready"
    /\ search = << <<"P","l","u","t","o">> >>
    /\ errorMessage = [kind |-> "notFound", name |-> <<"P","l","u","t","o">>]
    /\ crosshairTarget # NULL
    /\ cameraControl.fov = 30

\* C9: locating a target whose altitude is > 0 sets the camera to
\* phi = 90 degrees - altitude, theta = azimuth and the field of view 30, with
\* the altitude and azimuth of calculateAltAz for the target, the observer and
\* the simulated time.
C9_AimAtTarget ==
    \A name \in Range(search) :
        (Located(name) /\ ResolvedAltAz(name).altitude > 0)
            => /\ cameraControl = [phi   |-> HalfPi - degToRad(ResolvedAltAz(name).altitude),
                                   theta |-> degToRad(ResolvedAltAz(name).azimuth),
                                   fov   |-> 30]
               /\ cameraRef = <<[fov |-> 30]>>

\* the last step aimed the camera at a star that stands above the horizon,
\* away from the zenith and from the north
C9_Witness ==
    /\ search # NULL
    /\ Located(search[1])
    /\ StarsNamed(search[1]) # {}
    /\ LET altAz == ResolvedAltAz(search[1])
       IN  /\ altAz.altitude > 0
           /\ altAz.altitude < 90
           /\ altAz.azimuth > 0
           /\ cameraControl = [phi   |-> HalfPi - degToRad(altAz.altitude),
                               theta |-> degToRad(altAz.azimuth),
                               fov   |-> 30]

(***************************************************************************)
(* Claims about the planet ephemeris                                       *)
(***************************************************************************)
\* the names of planetsData without Earth, in the order of the table
OtherPlanets ==
    << <<"M","e","r","c","u","r","y">>, <<"V","e","n","u","s">>, <<"M","a","r","s">>,
       <<"J","u","p","i","t","e","r">>, <<"S","a","t","u","r","n">>,
       <<"U","r","a","n","u","s">>, <<"N","e","p","t","u","n","e">> >>

\* C10: for every timestamp getPlanets returns the seven planets other than
\* Earth, each once and in the order of planetsData, and never Earth; so do
\* the planets the scene holds.
C10_EarthExcluded ==
    /\ \A date \in SimTimes :
          /\ planetNames(Ephemeris[date]) = OtherPlanets
          /\ \A k \in 1..Len(Ephemeris[date]) : Ephemeris[date][k].name # Earth
    /\ scenePhase = "ready" => planetNames(planetsRef) = OtherPlanets

\* the scene holds the planets of a time other than that of the start
C10_Witness ==
    /\ scenePhase = "ready"
    /\ Len(planetsRef) = 7
    /\ planetsRef = Ephemeris[simulationTimeRef]
    /\ simulationTimeRef # Start

(***************************************************************************)
(* The sidereal clock and the horizontal transform                         *)
(***************************************************************************)
\* the call of fn has returned
Returned(fn) == call # NULL /\ ret # NULL /\ call[1].fn = fn

\* C11: calculateAltAz never divides by zero and never returns an azimuth
\* that is NaN or infinite: for an object at the zenith or the nadir
\* (cos(alt) = 0) and for an observer at a pole (cos(lat) = 0) the azimuth it
\* returns is a number in [0, 360).
C11_AzimuthAtZenithAndPole ==
    \A fn \in {"calculateAltAz", "calculateAltAzWithLst"} :
        (Returned(fn) /\ (call[1].location.lat \in {-90, 90}
                            \/ ret[1].altitude \in {-90, 90, NaN}))
            => ret[1].azimuth \in 0..359

\* C12: for every timestamp, before J2000 and before the Unix epoch as well,
\* and every longitude in [-180, 180], the Greenwich and the local sidereal
\* time returned are at least 0 and less than 360 degrees.
C12_SiderealRange ==
    /\ Returned("getGreenwichSiderealTime") => ret[1] \in 0..359
    /\ Returned("getLocalSiderealTime") => (0 <= ret[1] /\ ret[1] < 2880)
    /\ Returned("calculateAltAzWithLst") => ret[1].lst \in 0..359

\* the distance of two angles on the circle, in eighths of a degree
AngularDistance(a, b) ==
    IF Abs(a - b) % 2880 > 1440 THEN 2880 - (Abs(a - b) % 2880) ELSE Abs(a - b) % 2880

C14_OneSiderealTime ==
    /\ Returned("getGreenwichSiderealTime") => ret[1] = Gmst(call[1].date)
    /\ Returned("calculateAltAzWithLst")
          => ret[1].lst = getLocalSiderealTime(call[1].date, call[1].location.lon)

\* C15: for every right ascension in [0, 360], declination in [-90, 90],
\* location and timestamp, calculateAltAz returns an altitude in [-90, 90] and
\* an azimuth in [0, 360).
C15_HorizontalRange ==
    \A fn \in {"calculateAltAz", "calculateAltAzWithLst"} :
        Returned(fn) => /\ ret[1].altitude \in -90..90
                        /\ ret[1].azimuth \in 0..359

C17_EquatorZenith ==
    /\ (Returned("calculateAltAz") /\ call[1].location.lat = 0 /\ call[1].coords.dec = 0
          /\ getLocalSiderealTime(call[1].date, call[1].location.lon) = call[1].coords.ra)
         => ret[1].altitude = 90
    /\ (Returned("calculateAltAzWithLst") /\ call[1].location.lat = 0
          /\ call[1].coords.dec = 0 /\ ret[1].lst = call[1].coords.ra)
         => ret[1].altitude = 90

\* at J2000 the sidereal time on the meridian of longitude -180 is 101
C17_Witness ==
    /\ Returned("calculateAltAz")
    /\ call[1].location = [lat |-> 0, lon |-> -180]
    /\ call[1].coords = [ra |-> 101, dec |-> 0]
    /\ getLocalSiderealTime(call[1].date, -180) = 101
    /\ ret[1].altitude = 90

(***************************************************************************)
(* The render frame                                                        *)
(***************************************************************************)
\* the point at the distance r (in hundredths) in the direction of the
\* altitude alt and the azimuth az, by the convention up = +y, east = +x,
\* north = -z, for the four points of the horizon and the zenith
Cardinal(alt, az, r) ==
    IF alt = 90 THEN [x |-> 0, y |-> r, z |-> 0]
    ELSE IF az = 0 THEN [x |-> 0, y |-> 0, z |-> 0 - r]
    ELSE IF az = 90 THEN [x |-> r, y |-> 0, z |-> 0]
    ELSE IF az = 180 THEN [x |-> 0, y |-> 0, z |-> r]
    ELSE [x |-> 0 - r, y |-> 0, z |-> 0]

IsCardinal(alt, az) == alt = 90 \/ (alt = 0 /\ az \in {0, 90, 180, 270})

\* C18: the render frame has up = +y, east = +x and north = -z: the horizon
\* point of azimuth 0 is (0, 0, -r), of azimuth 90 (r, 0, 0), of azimuth 180
\* (0, 0, r), of azimuth 270 (-r, 0, 0), and the zenith is (0, r, 0); the
\* sprites of the stars are placed by the same convention.
C18_RenderFrame ==
    /\ (Returned("altAzToCartesian") /\ IsCardinal(call[1].alt, call[1].az))
          => ret[1] = Cardinal(call[1].alt, call[1].az, 100 * call[1].radius)
    /\ (Returned("placeStar")
          /\ IsCardinal(calculateAltAz(call[1].coords, call[1].location, call[1].date).altitude,
                        calculateAltAz(call[1].coords, call[1].location, call[1].date).azimuth))
          => ret[1] = Cardinal(
                 calculateAltAz(call[1].coords, call[1].location, call[1].date).altitude,
                 calculateAltAz(call[1].coords, call[1].location, call[1].date).azimuth,
                 100 * SkyRadius)

\* the east point of the horizon on the sphere of radius 100
C18_Witness ==
    /\ Returned("altAzToCartesian")
    /\ call[1].alt = 0 /\ call[1].az = 90 /\ call[1].radius = 100
    /\ ret[1] = [x |-> 10000, y |-> 0, z |-> 0]

\* the square of the length of p, p in hundredths and the length in tenths
SquaredLength(p) ==
    RoundDiv(p.x, 10) * RoundDiv(p.x, 10) + RoundDiv(p.y, 10) * RoundDiv(p.y, 10)
        + RoundDiv(p.z, 10) * RoundDiv(p.z, 10)

\* C19: altAzToCartesian keeps the radius: x^2 + y^2 + z^2 = radius^2 for
\* every horizontal coordinate and every radius (here: the length is within a
\* tenth of the radius' unit, the rounding of the coordinates).
C19_RadiusKept ==
    Returned("altAzToCartesian")
        => /\ (10 * call[1].radius - 1) * (10 * call[1].radius - 1) <= SquaredLength(ret[1])
           /\ SquaredLength(ret[1]) <= (10 * call[1].radius + 1) * (10 * call[1].radius + 1)

\* a point off the axes: altitude 30, azimuth 45 on the sphere of radius 500
C19_Witness ==
    /\ Returned("altAzToCartesian")
    /\ call[1].alt = 30 /\ call[1].az = 45 /\ call[1].radius = 500
    /\ ret[1].x > 0 /\ ret[1].y = 25000 /\ ret[1].z = 0 - ret[1].x

(***************************************************************************)
(* The observer's location                                                 *)
(***************************************************************************)
\* the device gives no position: there is no navigator.geolocation, or
\* getCurrentPosition reports an error
Unavailable(device) == ~device.geolocation \/ device.report = "error"

\* C20: the lookup of the observer's location always completes with a
\* location and never with an error: whenever the device gives no position
\* (permission denied, lookup error, geolocation not supported) it yields the
\* fallback 37.7749, -122.4194, so that initScene always receives a location
\* and, the stars being loaded, sets the scene up for it.
C20_LocationAlwaysReceived ==
    [][\A device \in Devices :
          (Unavailable(device) /\ initScene(getUserLocation(device), Catalog))
              => /\ scenePhase' = "ready"
                 /\ observer' = [latitude |-> 38, longitude |-> -122]]_vars

(***************************************************************************)
(* Claims about the frames, the planets and the search                     *)
(***************************************************************************)
\* where a frame at the simulated time t puts the containers of the planets
\* if the right ascension and the declination of each are those of t
PositionsAt(t) ==
    [k \in 1..Len(Ephemeris[t]) |->
        positionOn(altAzOf([ra |-> Ephemeris[t][k].ra, dec |-> Ephemeris[t][k].dec],
                           here, t), SkyRadius)]

\* C21: the right ascension and declination of a planet that a frame or a
\* search uses are those of getPlanets at the simulated time of the frame or
\* the search: every frame puts the planets where the ephemeris of its time
\* puts them, and a search that finds a planet takes the planet of the
\* current simulated time as its target.
C21_PlanetsNeverCached ==
    /\ frame # NULL => frame[1].planets = PositionsAt(frame[1].time)
    /\ \A name \in Range(search) :
          (Located(name) /\ crosshairTarget # NULL /\ crosshairTarget[1].type = "planet")
              => \E k \in 1..Len(Ephemeris[simulationTimeRef]) :
                    crosshairTarget[1].data = Ephemeris[simulationTimeRef][k]

\* the altitude and azimuth that the k-th planet has for the observer at the
\* simulated time t, from nothing but the ephemeris of t
PlanetAltAzAt(k, t) ==
    altAzOf([ra |-> Ephemeris[t][k].ra, dec |-> Ephemeris[t][k].dec], here, t)

\* C22: the results that depend on time are functions of the sampled
\* simulated time, the observer and the catalog, so that two runs that agree
\* on these agree on the results whatever the wall clock did: the altitude
\* and azimuth shown while hovering over a planet and the direction in which a
\* search that found a planet turns the camera are those that the simulated
\* time alone determines. (The wall clock enters through the interval timer
\* that refreshes the planets: a run in which it has fired since the last
\* change of time and a run in which it has not differ.)
C22_ResultsFollowSimulatedTime ==
    /\ (frame # NULL /\ frame[1].hovered # NULL /\ frame[1].hit[1].kind = "planet")
          => frame[1].hovered[1].altAz
                 = PlanetAltAzAt(frame[1].hit[1].index, frame[1].time)
    /\ \A name \in Range(search) :
          (Located(name) /\ crosshairTarget # NULL /\ crosshairTarget[1].type = "planet")
              => \E k \in 1..Len(Ephemeris[simulationTimeRef]) :
                    /\ Ephemeris[simulationTimeRef][k].name = crosshairTarget[1].data.name
                    /\ cameraControl.phi
                           = HalfPi - degToRad(PlanetAltAzAt(k, simulationTimeRef).altitude)
                    /\ cameraControl.theta
                           = degToRad(PlanetAltAzAt(k, simulationTimeRef).azimuth)

\* C23: a search that finds its target at or below the horizon raises the
\* warning that names the target, and the warning is on display from the
\* search on (until the timer started by the search dismisses it 5000 ms
\* later, or a later search that navigates clears it): in the state that the
\* search leaves, no time has passed and the warning is displayed.
C23_WarningDisplayedAfterSearch ==
    \A name \in Range(search) :
        (Located(name) /\ ResolvedAltAz(name).altitude <= 0)
            => belowHorizonWarning # NULL

\* C24: every star of the catalog that loadStarData returns has a right
\* ascension in [0, 360) and a declination in [-90, 90]: the loader drops the
\* rows outside these ranges.
C24_CatalogInRange ==
    Returned("loadStarData")
        => \A k \in 1..Len(ret[1]) :
              /\ ret[1][k].RAJ2000 >= 0 /\ ret[1][k].RAJ2000 < 360
              /\ ret[1][k].DEJ2000 >= -90 /\ ret[1][k].DEJ2000 <= 90

\* C25: the direction in which the camera looks after a search has turned it
\* to a target at altitude alt in (0, 90] and azimuth az in [0, 360) is the
\* direction of the marker that altAzToCartesian gives a target there: the
\* look-at point at distance 100 is the marker position on the sphere of
\* radius 100.
C25_CameraLooksAtMarker ==
    Returned("lookAt")
        => ret[1] = altAzToCartesian(call[1].alt, call[1].az, 100)

\* the camera has been turned to a target in the west, 30 degrees up
C25_Witness ==
    /\ Returned("lookAt")
    /\ call[1].alt = 30 /\ call[1].az = 270
    /\ ret[1].x < 0 /\ ret[1].y = 5000

\* the points c on the sphere of the crosshair and m on the sphere of the
\* markers lie in the same direction from the origin, up to the rounding of
\* the coordinates to hundredths
SameDirection(c, m) ==
    /\ Abs(SkyRadius * c.x - CrosshairRadius * m.x) <= 2 * SkyRadius
    /\ Abs(SkyRadius * c.y - CrosshairRadius * m.y) <= 2 * SkyRadius
    /\ Abs(SkyRadius * c.z - CrosshairRadius * m.z) <= 2 * SkyRadius

\* C27: while a search for a planet has a crosshair target, every frame ends
\* with the crosshair visible and in the direction of the container of that
\* planet as the same frame placed it; and a frame drawn without a target
\* (before any search, or after a mouse-down or touch-start has cleared it)
\* ends with the crosshair hidden.
C27_CrosshairTracksTarget ==
    frame # NULL
        => /\ (frame[1].target # NULL /\ frame[1].target[1].type = "planet")
                 => /\ frame[1].crosshair.visible
                    /\ \A k \in 1..Len(frame[1].planets) :
                          planetGroup[k] = frame[1].target[1].data.name
                              => SameDirection(frame[1].crosshair.position,
                                               frame[1].planets[k])
           /\ frame[1].target = NULL => ~frame[1].crosshair.visible

\* C28: whatever drags, wheel events and searches have happened, the
\* vertical angle phi of the camera controls is within [0.1, pi - 0.1] and the
\* field of view within [5, 120].
C28_CameraWithinLimits ==
    /\ cameraControl.phi >= MinPhi /\ cameraControl.phi <= MaxPhi
    /\ cameraControl.fov >= MinFov /\ cameraControl.fov <= MaxFov

\* the stars and planets among which the labels were selected, and those of
\* them that are above the horizon at the date of the call
LabelObjects == allObjects(call[1].stars, Ephemeris[call[1].date])

AboveHorizon ==
    {k \in 1..Len(LabelObjects) :
        altAzOf([ra |-> LabelObjects[k].ra, dec |-> LabelObjects[k].dec],
                call[1].location, call[1].date).altitude > 0}

\* the names on the labels that are on display
LabelledNames == {ret[1].pool[i].textContent : i \in {j \in 1..PoolSize : ret[1].pool[j].visible}}

C30_OneContainerPerPlanet ==
    /\ scenePhase = "ready"
          => /\ planetGroup = planetNames(planetsRef)
             /\ Len(planetGroup) = Len(Ephemeris[simulationTimeRef])
             /\ \A i \in 1..Len(planetGroup) : \A j \in 1..Len(planetGroup) :
                   planetGroup[i] = planetGroup[j] => i = j
    /\ (frame # NULL /\ frame[1].hit # NULL /\ frame[1].hit[1].kind = "planet")
          => /\ frame[1].hovered # NULL
             /\ frame[1].hovered[1].name = planetGroup[frame[1].hit[1].index]

\* the planets were refreshed after a step of a year, and a frame drawn
\* then with the mouse on the sixth container reports Uranus
C30_Witness ==
    /\ scenePhase = "ready"
    /\ simulationTimeRef = Start + YearHours
    /\ planetsRef = Ephemeris[Start + YearHours]
    /\ frame # NULL
    /\ frame[1].time = Start + YearHours
    /\ frame[1].hit # NULL
    /\ frame[1].hovered # NULL
    /\ frame[1].hovered[1].name = <<"U","r","a","n","u","s">>
    /\ frame[1].hovered[1].altAz = PlanetAltAzAt(6, Start + YearHours)

(***************************************************************************)
(* Claims about the name of the location                                   *)
(***************************************************************************)
\* the hook of component h shows what the one lookup gave
ShowsResult(h) ==
    /\ fetchingPromise # NULL
    /\ fetchingPromise[1].state = "fulfilled"
    /\ hooks[h].locationName = fetchingPromise[1].value

====
